---- MODULE Spec2Model ----
(***************************************************************************)
(* The WAF log analysis pipeline of aws-infrastructure/tools/              *)
(* waf-analyzer.py: the log locator (get_log_files), the fetcher/parser    *)
(* (download_and_parse_logs), the threat aggregator                        *)
(* (analyze_threat_patterns) and the renderers (generate_report,           *)
(* create_visualizations).                                                 *)
(*                                                                         *)
(* Python strings that the code inspects character by character (the rule  *)
(* id, lower-cased and searched for keywords) are tuples of one-character  *)
(* strings; strings the code only uses as dictionary keys are TLA+ strings.*)
(* A Python dict with optional keys is a function whose DOMAIN holds the   *)
(* keys that are present.  A defaultdict(int) is a sequence of [k, n]      *)
(* entries in key insertion order (Python dicts keep insertion order).     *)
(***************************************************************************)
EXTENDS Integers, Sequences, FiniteSets, TLC

VARIABLES
    logs,       \* the record sequence handed to analyze_threat_patterns
    tz,         \* offset of local time from UTC, in seconds (the host's zone)
    pc,         \* the position of the program: "idle" | "loop" | "analyzed" |
                \* "reported" | "charted" | "locate" | "located" | "fetch" | "fetched"
    idx,        \* position of the for-loop of analyze_threat_patterns (1-based)
    analysis,   \* the analysis dict being accumulated / returned
    first,      \* the first completed run on this analyzer: its argument and result
    report,     \* the list of report lines built by generate_report
    stdout,     \* what has been printed, one element per print call
    fs,         \* the report file: its path and content
    output_file,    \* the output_file argument of the last generate_report call
    charts,         \* the chart directory: its path and the image files in it
    start_date,     \* arguments of get_log_files
    end_date,
    current_date,   \* the day the loop of get_log_files is at
    log_files,      \* the key list built by get_log_files / handed to the fetcher
    list_calls,     \* the list_objects_v2 requests made so far, with their outcome
    max_files,      \* the max_files argument of download_and_parse_logs
    processed_files,\* the processed-file counter of download_and_parse_logs
    fidx,           \* position of the for-loop of download_and_parse_logs (1-based)
    get_calls,      \* the get_object requests made so far, with their outcome
    args,           \* the command line of the analyzer, as argparse is given it
    VISUALIZATION_AVAILABLE,    \* whether the plotting libraries were imported
    main_pc,        \* the position of main of the analyzer, "none" outside a run of it
    exit_code,      \* the exit status of the analyzer process, NoExit while it runs
    validator,      \* the run of main of tests/test_aws_infrastructure.py
    copilot         \* the run of copilot_app.py

\* The state of the locator and of the fetcher/parser.
storage == <<start_date, end_date, current_date, log_files, list_calls,
             max_files, processed_files, fidx, get_calls>>

\* The state of main of the analyzer.
cli == <<args, VISUALIZATION_AVAILABLE, main_pc, exit_code>>

\* The state of the two other scripts.
scripts == <<validator, copilot>>

vars == <<logs, tz, pc, idx, analysis, first, report, stdout, fs, output_file,
          charts, storage, cli, scripts>>

----------------------------------------------------------------------------
(* Bounds of the model *)

MaxLogs == 3
MaxShuffleLogs == 3
MaxKeys == 11
MaxRepeats == 3
MaxMethods == 2         \* categories in a hand-built attack_methods table
MaxMethodCount == 2     \* largest count in a hand-built attack_methods table
MaxBlocked == 3         \* largest blocked_requests of a hand-built analysis
MaxDays == 3            \* days a date range spans at most
MaxFiles == 3           \* keys handed to the fetcher at most
MaxCap == 2             \* largest file cap
MaxText == 3            \* characters of a text handed to process_text at most

\* Sequences over S of length at most n.
BoundedSeq(S, n) == UNION {[1..k -> S] : k \in 0..n}

----------------------------------------------------------------------------
(* Strings *)

UpperCase == <<"A", "B", "C", "D", "E", "F", "G", "H", "I", "J", "K", "L", "M",
               "N", "O", "P", "Q", "R", "S", "T", "U", "V", "W", "X", "Y", "Z">>
LowerCase == <<"a", "b", "c", "d", "e", "f", "g", "h", "i", "j", "k", "l", "m",
               "n", "o", "p", "q", "r", "s", "t", "u", "v", "w", "x", "y", "z">>

\* The lower-case letter of each upper-case letter.
ToLower == [c \in {UpperCase[j] : j \in 1..Len(UpperCase)} |->
               LowerCase[CHOOSE j \in 1..Len(UpperCase) : UpperCase[j] = c]]

\* The upper-case letter of each lower-case letter.
ToUpper == [c \in {LowerCase[j] : j \in 1..Len(LowerCase)} |->
               UpperCase[CHOOSE j \in 1..Len(LowerCase) : LowerCase[j] = c]]

\* str.lower(): every upper-case letter is replaced by its lower-case letter.
lower(s) == [i \in 1..Len(s) |-> IF s[i] \in DOMAIN ToLower THEN ToLower[s[i]] ELSE s[i]]

\* `sub in s` on Python strings: sub occurs in s as a contiguous substring.
Contains(sub, s) ==
    \E i \in 0..(Len(s) - Len(sub)) : SubSeq(s, i + 1, i + Len(sub)) = sub

KwSql       == <<"s", "q", "l">>
KwSqli      == <<"s", "q", "l", "i">>
KwXss       == <<"x", "s", "s">>
KwRateLimit == <<"r", "a", "t", "e", "l", "i", "m", "i", "t">>
KwGeo       == <<"g", "e", "o">>

Unknown == <<"U", "n", "k", "n", "o", "w", "n">>

\* Rule ids occurring in the modelled log records.
RuleSQLi    == <<"A", "W", "S", "M", "a", "n", "a", "g", "e", "d", "R", "u", "l",
                 "e", "s", "S", "Q", "L", "i", "R", "u", "l", "e", "S", "e", "t">>
RuleRate    == <<"R", "a", "t", "e", "L", "i", "m", "i", "t", "R", "u", "l", "e">>
RuleXssSql  == <<"x", "s", "s", "_", "S", "Q", "L">>
RuleGeoRate == <<"G", "e", "o", "R", "a", "t", "e", "L", "i", "m", "i", "t">>
RuleGeo     == <<"G", "e", "o", "B", "l", "o", "c", "k", "R", "u", "l", "e">>
RuleXss     == <<"C", "r", "o", "s", "s", "S", "i", "t", "e", "X", "S", "S">>
RuleDefault == <<"D", "e", "f", "a", "u", "l", "t", "_", "A", "c", "t", "i", "o", "n">>

----------------------------------------------------------------------------
(* Dictionaries *)

\* dict.get(key, default)
Get(d, key, default) == IF key \in DOMAIN d THEN d[key] ELSE default

\* Python's None.
None == "None"

\* The {} default of log.get('httpRequest', {}).
EmptyDict == <<>>

\* Keys of a defaultdict(int), in insertion order, and the count of a key
\* (0 for a key that was never inserted).
Keys(t) == {t[i].k : i \in 1..Len(t)}
Count(t, key) == IF \E i \in 1..Len(t) : t[i].k = key
                 THEN t[CHOOSE i \in 1..Len(t) : t[i].k = key].n
                 ELSE 0

\* table[key] = 1 in place of += 1.
IncrAssign(t, key) ==
    IF \E i \in 1..Len(t) : t[i].k = key
    THEN [i \in 1..Len(t) |-> IF t[i].k = key THEN [t[i] EXCEPT !.n = 1] ELSE t[i]]
    ELSE Append(t, [k |-> key, n |-> 1])

\* table[key] += 1 on a defaultdict(int): a new key is inserted last with
\* count 1, a present key keeps its place and its count grows by one.
Incr(t, key) ==
    IF \E i \in 1..Len(t) : t[i].k = key
    THEN [i \in 1..Len(t) |-> IF t[i].k = key THEN [t[i] EXCEPT !.n = @ + 1] ELSE t[i]]
    ELSE Append(t, [k |-> key, n |-> 1])

----------------------------------------------------------------------------
(* Log records *)

HttpUS == [country |-> "US", clientIP |-> "198.51.100.7", uri |-> "/login"]
HttpCN == [country |-> "CN", clientIP |-> "203.0.113.9", uri |-> "/admin"]

LogRecords == {
    [action |-> "BLOCK", timestamp |-> 0, terminatingRuleId |-> RuleSQLi,
     httpRequest |-> HttpUS],
    [action |-> "BLOCK", timestamp |-> 3600000, terminatingRuleId |-> RuleDefault,
     httpRequest |-> [country |-> "US"]],
    [action |-> "BLOCK", timestamp |-> 86399999, terminatingRuleId |-> RuleXssSql],
    [action |-> "BLOCK",
     httpRequest |-> [clientIP |-> "203.0.113.9", uri |-> "/login"]],
    [action |-> "BLOCK", timestamp |-> 90000000, terminatingRuleId |-> RuleGeoRate,
     httpRequest |-> HttpCN],
    [action |-> "BLOCK", timestamp |-> 0, terminatingRuleId |-> RuleXss,
     httpRequest |-> HttpCN],
    [action |-> "BLOCK", timestamp |-> 3600000, terminatingRuleId |-> RuleGeo,
     httpRequest |-> EmptyDict],
    [action |-> "ALLOW", timestamp |-> 0, terminatingRuleId |-> RuleDefault,
     httpRequest |-> HttpUS],
    [action |-> "block", timestamp |-> 3600000, terminatingRuleId |-> RuleGeo,
     httpRequest |-> HttpCN],
    [timestamp |-> 90000000, terminatingRuleId |-> RuleRate]
}

\* Records of the runs that are repeated on a shuffled sequence.
ShuffleRecords == {
    [action |-> "BLOCK", timestamp |-> 0, terminatingRuleId |-> RuleSQLi,
     httpRequest |-> HttpUS],
    [action |-> "BLOCK", timestamp |-> 3600000, terminatingRuleId |-> RuleRate,
     httpRequest |-> [country |-> "US"]],
    [action |-> "BLOCK", timestamp |-> 86399999, terminatingRuleId |-> RuleXssSql],
    [action |-> "ALLOW", timestamp |-> 0, terminatingRuleId |-> RuleDefault,
     httpRequest |-> HttpCN],
    [timestamp |-> 90000000, terminatingRuleId |-> RuleRate]
}

\* The example run: three BLOCK records and two ALLOW records.
ExampleLogs == <<
    [action |-> "BLOCK", timestamp |-> 0, terminatingRuleId |-> RuleSQLi,
     httpRequest |-> HttpUS],
    [action |-> "BLOCK", timestamp |-> 3600000, terminatingRuleId |-> RuleSQLi,
     httpRequest |-> HttpCN],
    [action |-> "BLOCK", timestamp |-> 3600000, terminatingRuleId |-> RuleRate,
     httpRequest |-> HttpUS],
    [action |-> "ALLOW", timestamp |-> 0, terminatingRuleId |-> RuleDefault,
     httpRequest |-> HttpUS],
    [action |-> "ALLOW", timestamp |-> 90000000, terminatingRuleId |-> RuleDefault,
     httpRequest |-> HttpCN] >>

\* Offsets of the host's local time from UTC, in seconds.
TzOffsets == {0, -18000}

----------------------------------------------------------------------------
(* analyze_threat_patterns *)

\* An analysis dict with every counter at zero and every table empty.
ZeroAnalysis ==
    [total_requests      |-> 0,
     blocked_requests    |-> 0,
     allowed_requests    |-> 0,
     blocked_by_rule     |-> <<>>,
     blocked_by_country  |-> <<>>,
     blocked_by_ip       |-> <<>>,
     top_blocked_uris    |-> <<>>,
     attack_methods      |-> <<>>,
     hourly_distribution |-> <<>>]

\* The accumulators of an earlier call live on into the next one.
NewAnalysisStale(ls) == [analysis EXCEPT !.total_requests = Len(ls)]

\* The analysis dict as created before the loop: total_requests = len(logs),
\* everything else zero or empty.
NewAnalysis(ls) == [ZeroAnalysis EXCEPT !.total_requests = Len(ls)]

\* The milliseconds taken for seconds.
HourOfSeconds(ms, z) == ((ms + z) % 86400) \div 3600

\* datetime.fromtimestamp(ms / 1000).hour: the hour of day, in local time, of
\* the instant ms milliseconds after the epoch.
HourOf(ms, z) == (((ms \div 1000) + z) % 86400) \div 3600

\* The inner default left out: log.get('httpRequest', {}).get(name) is None
\* for an absent field.
HttpFieldNoDefault(log, name) == Get(Get(log, "httpRequest", EmptyDict), name, None)

\* log.get('httpRequest', {}).get(name, 'Unknown')
HttpField(log, name) == Get(Get(log, "httpRequest", EmptyDict), name, "Unknown")

\* log.get('terminatingRuleId', 'Unknown')
RuleId(log) == Get(log, "terminatingRuleId", Unknown)

\* The keywords searched in the rule id as written, not lower-cased.
ClassifyCaseSensitive(rule_id) ==
    IF Contains(KwSql, rule_id) \/ Contains(KwSqli, rule_id) THEN "SQL Injection"
    ELSE IF Contains(KwXss, rule_id)       THEN "Cross-Site Scripting"
    ELSE IF Contains(KwRateLimit, rule_id) THEN "Rate Limiting"
    ELSE IF Contains(KwGeo, rule_id)       THEN "Geographic Block"
    ELSE "Other"

\* The if/elif chain that classifies the attack type from the rule id.
Classify(rule_id) ==
    LET low == lower(rule_id) IN
    IF Contains(KwSql, low) \/ Contains(KwSqli, low) THEN "SQL Injection"
    ELSE IF Contains(KwXss, low)       THEN "Cross-Site Scripting"
    ELSE IF Contains(KwRateLimit, low) THEN "Rate Limiting"
    ELSE IF Contains(KwGeo, low)       THEN "Geographic Block"
    ELSE "Other"

\* The body of `if action == 'BLOCK':`.  The http method and the user-agent
\* header it also reads are locals that are never stored.
BlockUpdate(a, log) ==
    [a EXCEPT
        !.blocked_requests   = @ + 1,
        !.blocked_by_rule    = Incr(@, RuleId(log)),
        !.blocked_by_country = Incr(@, HttpField(log, "country")),
        !.blocked_by_ip      = Incr(@, HttpField(log, "clientIP")),
        !.top_blocked_uris   = Incr(@, HttpField(log, "uri")),
        !.attack_methods     = Incr(@, Classify(RuleId(log)))]

\* allowed_requests taken as what is not blocked so far.
AllowUpdateFromTotal(a, log) ==
    [a EXCEPT !.allowed_requests = a.total_requests - a.blocked_requests]

\* The body of `elif action == 'ALLOW':`.
AllowUpdate(a, log) == [a EXCEPT !.allowed_requests = @ + 1]

\* `else:` in place of `elif action == 'ALLOW':`.
ActionUpdateElseAllow(a, log) ==
    IF Get(log, "action", "") = "BLOCK" THEN BlockUpdate(a, log)
    ELSE AllowUpdate(a, log)

\* The action compared without regard to case.
ActionUpdateAnyCase(a, log) ==
    IF Get(log, "action", "") \in {"BLOCK", "block"} THEN BlockUpdate(a, log)
    ELSE IF Get(log, "action", "") \in {"ALLOW", "allow"} THEN AllowUpdate(a, log)
    ELSE a

\* The branch on the action of one record.
ActionUpdate(a, log) ==
    IF Get(log, "action", "") = "BLOCK" THEN BlockUpdate(a, log)
    ELSE IF Get(log, "action", "") = "ALLOW" THEN AllowUpdate(a, log)
    ELSE a

\* analysis['hourly_distribution'][hour] += 1
HourUpdate(a, log, z) ==
    [a EXCEPT !.hourly_distribution = Incr(@, HourOf(Get(log, "timestamp", 0), z))]

\* One iteration of `for log in logs:`.
ProcessRecord(a, log, z) == HourUpdate(ActionUpdate(a, log), log, z)

\* JSON values that are no log record.  A value that is no object (a
\* number, a string, an array, null) is written [json |-> kind]; an object
\* one of whose fields holds null carries the field's name under
\* "json_null", and what the record holds under that name is not read.
NonObject(kind) == [json |-> kind]
IsObject(v) == "json" \notin DOMAIN v
WithNull(log, f) == [k \in DOMAIN log \cup {"json_null"} |->
                        IF k = "json_null" THEN {f} ELSE log[k]]
IsNull(log, f) == "json_null" \in DOMAIN log /\ f \in log["json_null"]

\* The loop body raises on this element: it has no get() (line 108), its
\* timestamp cannot be divided (line 109), or it is a BLOCK whose
\* httpRequest has no get() (line 120) or whose rule id has no lower()
\* (line 141).
Raises(log) ==
    \/ ~IsObject(log)
    \/ IsNull(log, "timestamp")
    \/ /\ Get(log, "action", "") = "BLOCK"
       /\ IsNull(log, "httpRequest") \/ IsNull(log, "terminatingRuleId")

\* Entry of analyze_threat_patterns: the fresh analysis dict.
AnalyzeStart ==
    /\ pc = "idle"
    /\ analysis' = NewAnalysis(logs)
    /\ idx' = 1
    /\ pc' = "loop"
    /\ UNCHANGED <<logs, tz, first, report, stdout, fs, output_file, charts, storage,
                   cli, scripts>>

\* One iteration of the loop.
AnalyzeStep ==
    /\ pc = "loop"
    /\ idx <= Len(logs)
    /\ IF Raises(logs[idx])
       THEN /\ pc' = "raised"
            /\ UNCHANGED <<analysis, idx>>
       ELSE /\ analysis' = ProcessRecord(analysis, logs[idx], tz)
            /\ idx' = idx + 1
            /\ pc' = pc
    /\ UNCHANGED <<logs, tz, first, report, stdout, fs, output_file, charts, storage,
                   cli, scripts>>

\* `return analysis` once the loop is exhausted.
AnalyzeReturn ==
    /\ pc = "loop"
    /\ idx > Len(logs)
    /\ pc' = "analyzed"
    /\ UNCHANGED <<logs, tz, idx, analysis, first, report, stdout, fs, output_file, charts, storage,
                   cli, scripts>>

\* A caller runs analyze_threat_patterns once more on this analyzer, on the
\* same records in the same or in a shuffled order.  The first completed run
\* is remembered for comparison.
AnalyzeAgain ==
    /\ pc = "analyzed"
    /\ first' = IF first.set THEN first
                ELSE [set |-> TRUE, logs |-> logs, analysis |-> analysis]
    /\ \E p \in Permutations(1..Len(logs)) :
           logs' = [i \in 1..Len(logs) |-> logs[p[i]]]
    /\ pc' = "idle"
    /\ UNCHANGED <<tz, idx, analysis, report, stdout, fs, output_file, charts, storage,
                   cli, scripts>>

----------------------------------------------------------------------------
(* generate_report *)

TopN == 10

\* Report lines.  Numbers are kept as numbers; a percentage is kept in units
\* of its last printed digit (hundredths for :.2f, tenths for :.1f).
Text(s)              == [kind |-> "text", text |-> s]
Stat(label, n)       == [kind |-> "stat", label |-> label, value |-> n]
RateLine(h)          == [kind |-> "rate", hundredths |-> h]
BlocksLine(sec, e)   == [kind |-> "blocks", section |-> sec, key |-> e.k, count |-> e.n]
MethodLine(e, tenth) == [kind |-> "method", key |-> e.k, count |-> e.n, tenths |-> tenth]

\* a / b rounded to the nearest integer, a tie going to the even neighbour:
\* what the :.Nf formats print of a quotient that the float holds exactly.
RoundDiv(a, b) ==
    LET q == a \div b
        r == a % b
    IN  IF 2 * r < b THEN q
        ELSE IF 2 * r > b THEN q + 1
        ELSE IF q % 2 = 0 THEN q ELSE q + 1

\* Floor division in place of true division: (blocked // total) * 100.
BlockRateFloorDiv(blocked, total) == (blocked \div total) * 10000

\* (blocked_requests / total_requests) * 100, in hundredths of a percent.
BlockRate(blocked, total) == RoundDiv(blocked * 10000, total)

\* (count / blocked_requests) * 100 if blocked_requests > 0 else 0, in tenths.
MethodPct(count, blocked) == IF blocked > 0 THEN RoundDiv(count * 1000, blocked) ELSE 0

\* e inserted in front of the entries of equal count: an unstable sort.
InsertDescBeforeEqual(s, e) ==
    LET p == Cardinality({i \in 1..Len(s) : s[i].n > e.n})
    IN  SubSeq(s, 1, p) \o <<e>> \o SubSeq(s, p + 1, Len(s))

\* e inserted into s, which is in non-increasing count order, behind every
\* entry whose count is at least e's.
InsertDesc(s, e) ==
    LET p == Cardinality({i \in 1..Len(s) : s[i].n >= e.n})
    IN  SubSeq(s, 1, p) \o <<e>> \o SubSeq(s, p + 1, Len(s))

\* sorted(table.items(), key=lambda x: x[1], reverse=True): a stable sort,
\* entries of equal count keep the order they have in the table.
RECURSIVE SortedByCount(_)
SortedByCount(t) ==
    IF t = <<>> THEN <<>>
    ELSE InsertDesc(SortedByCount(SubSeq(t, 1, Len(t) - 1)), t[Len(t)])

\* s[:n]
Slice(s, n) == SubSeq(s, 1, IF Len(s) < n THEN Len(s) ELSE n)

\* for key, count in sorted(...)[:10]: "{key}: {count:,} blocks"
TopLines(sec, t) ==
    LET top == Slice(SortedByCount(t), TopN)
    IN  [i \in 1..Len(top) |-> BlocksLine(sec, top[i])]

\* The categories in the order the table holds them, without the sort.
MethodLinesUnsorted(a) ==
    LET all == a.attack_methods
    IN  [i \in 1..Len(all) |-> MethodLine(all[i], MethodPct(all[i].n, a.blocked_requests))]

\* for method, count in sorted_methods: "{method}: {count:,} ({percentage:.1f}%)"
MethodLines(a) ==
    LET all == SortedByCount(a.attack_methods)
    IN  [i \in 1..Len(all) |-> MethodLine(all[i], MethodPct(all[i].n, a.blocked_requests))]

\* The Block Rate line, appended only when total_requests > 0.
RateLines(a) ==
    IF a.total_requests > 0
    THEN <<RateLine(BlockRate(a.blocked_requests, a.total_requests))>>
    ELSE <<>>

\* The list `report` as it stands when it is joined into report_text.  The
\* "Generated:" line carries the wall clock, which nothing else reads.
ReportLines(a) ==
    <<Text("===="), Text("AWS WAF Security Analysis Report"), Text("===="),
      Text("Generated"), Text(""),
      Text("SUMMARY STATISTICS"), Text("----"),
      Stat("Total Requests", a.total_requests),
      Stat("Blocked Requests", a.blocked_requests),
      Stat("Allowed Requests", a.allowed_requests)>>
    \o RateLines(a)
    \o <<Text(""), Text("TOP TRIGGERED RULES"), Text("----")>>
    \o TopLines("rule", a.blocked_by_rule)
    \o <<Text(""), Text("TOP ATTACKING COUNTRIES"), Text("----")>>
    \o TopLines("country", a.blocked_by_country)
    \o <<Text(""), Text("TOP ATTACKING IP ADDRESSES"), Text("----")>>
    \o TopLines("ip", a.blocked_by_ip)
    \o <<Text(""), Text("ATTACK METHODS DISTRIBUTION"), Text("----")>>
    \o MethodLines(a)
    \o <<Text(""), Text("TOP BLOCKED URIs"), Text("----")>>
    \o TopLines("uri", a.top_blocked_uris)

\* The output_file arguments: None, the empty string, a path.
OutputFiles == {None, "", "report.txt"}

\* `if output_file:` -- None and the empty string are false.
Truthy(path) == path # None /\ path # ""

\* The report is written and printed as well.
DeliveredTwice(path, text) ==
    /\ stdout' = Append(stdout, text)
    /\ fs' = IF Truthy(path) THEN [path |-> path, content |-> text] ELSE fs

\* The tail of generate_report: report_text goes to the file at output_file,
\* replacing what the file held, and a notice is printed; or, without an
\* output_file, report_text is printed.
Delivered(path, text) ==
    IF Truthy(path)
    THEN /\ fs' = [path |-> path, content |-> text]
         /\ stdout' = Append(stdout, <<Text("Report saved to"), Text(path)>>)
    ELSE /\ stdout' = Append(stdout, text)
         /\ fs' = fs

\* generate_report(analysis, output_file): builds the report and either
\* writes it to output_file and prints a notice, or prints the report.
GenerateReport ==
    /\ pc = "analyzed"
    /\ report' = ReportLines(analysis)
    /\ output_file' \in OutputFiles
    /\ Delivered(output_file', report')
    /\ pc' = "reported"
    /\ UNCHANGED <<logs, tz, idx, analysis, first, charts, storage,
                   cli, scripts>>

----------------------------------------------------------------------------
(* The chart renderer: create_visualizations *)

\* No chart has been written yet.
NoCharts == [dir |-> None, files |-> <<>>]

\* output_dir, by default.
ChartDir == "./waf_charts"

\* table[key] on a defaultdict(int): a missing key is inserted with 0.
ReadByIndex(t, key) ==
    [value |-> Count(t, key),
     table |-> IF key \in Keys(t) THEN t ELSE Append(t, [k |-> key, n |-> 0])]

\* table.get(key, 0): the value and the table after the read; get() does
\* not insert a missing key, not even on a defaultdict.
ReadByGet(t, key) == [value |-> Count(t, key), table |-> t]

\* [analysis['hourly_distribution'].get(hour, 0) for hour in range(24)],
\* the reads for hours 0..h-1: the values read and the table afterwards.
RECURSIVE HourlyCounts(_, _)
HourlyCounts(t, h) ==
    IF h = 0 THEN [values |-> <<>>, table |-> t]
    ELSE LET before == HourlyCounts(t, h - 1)
             read   == ReadByGet(before.table, h - 1)
         IN  [values |-> Append(before.values, read.value), table |-> read.table]

\* rule[:30] + '...' if len(rule) > 30 else rule
RuleLabel(rule) ==
    IF Len(rule) > 30 THEN SubSeq(rule, 1, 30) \o <<".", ".", ".">> ELSE rule

\* The five images, each with the data it plots.
ChartFiles(a, hourly) ==
    <<[name |-> "request_distribution.png",
       data |-> <<a.blocked_requests, a.allowed_requests>>],
      [name |-> "top_countries.png",
       data |-> Slice(SortedByCount(a.blocked_by_country), TopN)],
      [name |-> "attack_methods.png",
       data |-> a.attack_methods],
      [name |-> "hourly_distribution.png",
       data |-> hourly],
      [name |-> "top_rules.png",
       data |-> LET top == Slice(SortedByCount(a.blocked_by_rule), TopN)
                IN  [i \in 1..Len(top) |-> [k |-> RuleLabel(top[i].k), n |-> top[i].n]]]>>

\* create_visualizations(analysis): without the plotting libraries it prints
\* two lines and returns; with them it writes the five images into
\* output_dir and prints where they are.
CreateVisualizationsOn(available) ==
    /\ pc = "reported"
    /\    IF ~available
          THEN /\ stdout' = stdout \o <<<<Text("Visualization libraries not available")>>,
                                         <<Text("Install with pip")>>>>
               /\ UNCHANGED <<analysis, charts>>
          ELSE LET hourly == HourlyCounts(analysis.hourly_distribution, 24)
               IN  /\ analysis' = [analysis EXCEPT !.hourly_distribution = hourly.table]
                   /\ charts' = [dir |-> ChartDir,
                                  files |-> ChartFiles(analysis, hourly.values)]
                   /\ stdout' = Append(stdout, <<Text("Visualizations saved to"),
                                                  Text(ChartDir)>>)
    /\ pc' = "charted"
    /\ UNCHANGED <<logs, tz, idx, first, report, fs, output_file, storage,
                   cli, scripts>>

\* create_visualizations is called, the plotting libraries being there or not.
CreateVisualizations == \E available \in BOOLEAN : CreateVisualizationsOn(available)

----------------------------------------------------------------------------
(* The log locator: get_log_files *)

\* datetime values at midnight, as main parses them from %Y-%m-%d.
Date(y, m, d) == [year |-> y, month |-> m, day |-> d]

IsLeap(y) == (y % 4 = 0 /\ y % 100 # 0) \/ y % 400 = 0
DaysInMonth(y, m) ==
    IF m = 2 THEN (IF IsLeap(y) THEN 29 ELSE 28)
    ELSE IF m \in {4, 6, 9, 11} THEN 30 ELSE 31

\* current_date + timedelta(days=1)
NextDay(dt) ==
    IF dt.day < DaysInMonth(dt.year, dt.month) THEN [dt EXCEPT !.day = dt.day + 1]
    ELSE IF dt.month < 12 THEN Date(dt.year, dt.month + 1, 1)
    ELSE Date(dt.year + 1, 1, 1)

\* a <= b on datetime values
DateLE(a, b) ==
    \/ a.year < b.year
    \/ a.year = b.year /\ a.month < b.month
    \/ a.year = b.year /\ a.month = b.month /\ a.day <= b.day

\* str(n) of a natural number, as a tuple of characters.
Digits == <<"0", "1", "2", "3", "4", "5", "6", "7", "8", "9">>
RECURSIVE Str(_)
Str(n) == IF n < 10 THEN <<Digits[n + 1]>> ELSE Append(Str(n \div 10), Digits[(n % 10) + 1])

\* int(cs) of a run of decimal digits.
IsDigits(cs) == \A i \in 1..Len(cs) : \E n \in 1..10 : Digits[n] = cs[i]
RECURSIVE NumOf(_)
NumOf(cs) ==
    IF cs = <<>> THEN 0
    ELSE 10 * NumOf(SubSeq(cs, 1, Len(cs) - 1))
         + (CHOOSE n \in 0..9 : Digits[n + 1] = cs[Len(cs)])

\* The number without the padding.
Unpadded(n) == Str(n)

\* f"{n:02d}"
Pad2(n) == IF n < 10 THEN <<"0">> \o Str(n) ELSE Str(n)

\* f"year={d.year}/month={d.month:02d}/day={d.day:02d}/"
Prefix(dt) ==
    <<"y", "e", "a", "r", "=">> \o Str(dt.year)
    \o <<"/", "m", "o", "n", "t", "h", "=">> \o Pad2(dt.month)
    \o <<"/", "d", "a", "y", "=">> \o Pad2(dt.day) \o <<"/">>

\* key.endswith(suffix)
EndsWith(key, suffix) ==
    /\ Len(key) >= Len(suffix)
    /\ SubSeq(key, Len(key) - Len(suffix) + 1, Len(key)) = suffix

GzSuffix == <<".", "g", "z">>
TxtSuffix == <<".", "t", "x", "t">>

\* The characters of the keys, in code point order, and the rank of each.
CodePoints == <<".", "/">> \o Digits \o <<"=">> \o LowerCase
Ord == [c \in {CodePoints[i] : i \in 1..Len(CodePoints)} |->
            CHOOSE i \in 1..Len(CodePoints) : CodePoints[i] = c]

\* a < b on str: the first position where they differ decides, a proper
\* prefix comes first.
StrLT(a, b) ==
    \E i \in 1..(Len(b)) :
        /\ \A j \in 1..(i - 1) : j <= Len(a) /\ a[j] = b[j]
        /\ \/ i = Len(a) + 1
           \/ i <= Len(a) /\ Ord[a[i]] < Ord[b[i]]

\* The list as collected, without the sort.
Unsorted(s) == s

\* sorted(log_files): ascending; equal keys all stay, in the order they
\* came.  The key at position j goes behind the smaller keys and the equal
\* keys before it.
SortedKeys(s) ==
    LET place == [j \in 1..Len(s) |->
                     Cardinality({k \in 1..Len(s) : StrLT(s[k], s[j])})
                     + Cardinality({k \in 1..j : s[k] = s[j]})]
    IN  [p \in 1..Len(s) |-> s[CHOOSE j \in 1..Len(s) : place[j] = p]]

\* What list_objects_v2 can do for the prefix p: raise, answer without
\* 'Contents', or answer with objects -- out of order and with a key that
\* is not a compressed log, the same key twice, a key other days return too.
ObjectKey(p, name, suffix) == p \o name \o suffix
SharedKey == <<"s", "h", "a", "r", "e", "d">> \o GzSuffix
Listing(keys) == [raised |-> FALSE, response |-> [Contents |-> [i \in 1..Len(keys) |-> [Key |-> keys[i]]]]]
ListOutcomes(p) ==
    { [raised |-> TRUE, response |-> [KeyCount |-> 0]],
      [raised |-> FALSE, response |-> [KeyCount |-> 0]],
      Listing(<<ObjectKey(p, <<"b">>, GzSuffix), ObjectKey(p, <<"a">>, GzSuffix)>>),
      Listing(<<ObjectKey(p, <<"a">>, GzSuffix), ObjectKey(p, <<"a">>, TxtSuffix),
                ObjectKey(p, <<"a">>, GzSuffix)>>),
      Listing(<<SharedKey>>) }

\* [obj['Key'] for obj in response['Contents'] if obj['Key'].endswith('.gz')],
\* nothing when the response has no 'Contents'.
GzKeys(response) ==
    IF "Contents" \in DOMAIN response
    THEN LET keys == [i \in 1..Len(response.Contents) |-> response.Contents[i].Key]
         IN  SelectSeq(keys, LAMBDA k : EndsWith(k, GzSuffix))
    ELSE <<>>

\* The exception of a listing leaves get_log_files.
ListedOrRaise(files, out, cur, outcome) ==
    IF outcome.raised
    THEN [log_files |-> files, stdout |-> out, current_date |-> cur, pc |-> "raised"]
    ELSE [log_files |-> files \o GzKeys(outcome.response), stdout |-> out,
          current_date |-> NextDay(cur), pc |-> "locate"]

\* A listing that raised is made again.
ListedOrRetry(files, out, cur, outcome) ==
    IF outcome.raised
    THEN [log_files |-> files,
          stdout |-> Append(out, <<Text("Error listing objects for"), Text(Prefix(cur))>>),
          current_date |-> cur, pc |-> "locate"]
    ELSE [log_files |-> files \o GzKeys(outcome.response), stdout |-> out,
          current_date |-> NextDay(cur), pc |-> "locate"]

\* One pass of the while loop once list_objects_v2 has answered or raised:
\* the .gz keys are appended, or the error is printed; the day advances
\* either way.
Listed(files, out, cur, outcome) ==
    IF outcome.raised
    THEN [log_files |-> files,
          stdout |-> Append(out, <<Text("Error listing objects for"), Text(Prefix(cur))>>),
          current_date |-> NextDay(cur), pc |-> "locate"]
    ELSE [log_files |-> files \o GzKeys(outcome.response), stdout |-> out,
          current_date |-> NextDay(cur), pc |-> "locate"]

\* while current_date <= end_date: one listing of the day's prefix.
ListDayOf(outcomes) ==
    /\ pc = "locate"
    /\ DateLE(current_date, end_date)
    /\ \E outcome \in outcomes :
          LET after == Listed(log_files, stdout, current_date, outcome)
          IN  /\ list_calls' = Append(list_calls, [date |-> current_date,
                                                   prefix |-> Prefix(current_date),
                                                   outcome |-> outcome])
              /\ log_files' = after.log_files
              /\ stdout' = after.stdout
              /\ current_date' = after.current_date
              /\ pc' = after.pc
    /\ UNCHANGED <<logs, tz, idx, analysis, first, report, fs, output_file, charts,
                   start_date, end_date, max_files, processed_files, fidx, get_calls,
                   cli, scripts>>

ListDay == ListDayOf(ListOutcomes(Prefix(current_date)))

\* return sorted(log_files), once current_date is past end_date.
LocateReturn ==
    /\ pc = "locate"
    /\ ~DateLE(current_date, end_date)
    /\ log_files' = SortedKeys(log_files)
    /\ pc' = "located"
    /\ UNCHANGED <<logs, tz, idx, analysis, first, report, stdout, fs, output_file,
                   charts, start_date, end_date, current_date, list_calls,
                   max_files, processed_files, fidx, get_calls, cli, scripts>>

----------------------------------------------------------------------------
(* The fetcher/parser: download_and_parse_logs *)

\* The lines of a decompressed object: a JSON object, text that is no JSON,
\* the empty line, a line of white space only.
JsonLine(value) == [kind |-> "json", value |-> value]
BadLine   == [kind |-> "invalid", value |-> <<>>]
EmptyLine == [kind |-> "empty", value |-> <<>>]
BlankLine == [kind |-> "blank", value |-> <<>>]
IsSpace(line) == line.kind \in {"empty", "blank"}

\* content.strip().split('\n'): white space at both ends of the content
\* goes, and with it the empty and blank lines there; what is left of an
\* all-white content is one empty line.
StripSplit(lines) ==
    LET solid == {i \in 1..Len(lines) : ~IsSpace(lines[i])}
    IN  IF solid = {} THEN <<EmptyLine>>
        ELSE SubSeq(lines, CHOOSE i \in solid : \A j \in solid : i <= j,
                           CHOOSE i \in solid : \A j \in solid : j <= i)

\* json.loads(line): the value, or JSONDecodeError.
json_loads(line) ==
    IF line.kind = "json" THEN [ok |-> TRUE, value |-> line.value]
    ELSE [ok |-> FALSE, value |-> <<>>]

\* A line that fails to parse ends the reading of its file.
RECURSIVE ParsedUntilBad(_, _)
ParsedUntilBad(acc, lines) ==
    IF lines = <<>> THEN acc
    ELSE IF lines[1].kind = "empty" THEN ParsedUntilBad(acc, Tail(lines))
    ELSE IF json_loads(lines[1]).ok
         THEN ParsedUntilBad(Append(acc, json_loads(lines[1]).value), Tail(lines))
         ELSE acc

\* for line in ...: if line: try: logs.append(json.loads(line))
\*                           except json.JSONDecodeError: continue
RECURSIVE Parsed(_, _)
Parsed(acc, lines) ==
    IF lines = <<>> THEN acc
    ELSE IF lines[1].kind = "empty" THEN Parsed(acc, Tail(lines))
    ELSE IF json_loads(lines[1]).ok
         THEN Parsed(Append(acc, json_loads(lines[1]).value), Tail(lines))
         ELSE Parsed(acc, Tail(lines))

\* What retrieving one object can do: get_object raises, gzip.decompress
\* raises, decode('utf-8') raises, or the text arrives.
Retrieved(lines) == [stage |-> "ok", lines |-> lines]
Failed(stage) == [stage |-> stage, lines |-> <<>>]
FileMixed == <<EmptyLine, JsonLine(ExampleLogs[1]), BadLine, EmptyLine, BlankLine,
               JsonLine(ExampleLogs[2]), BadLine, EmptyLine>>
FileClean == <<JsonLine(ExampleLogs[3])>>
FileBlank == <<BlankLine, EmptyLine>>
\* Contents whose lines are JSON, but no log record as the aggregator reads
\* one: a number, a null timestamp, a BLOCK with a null httpRequest or a
\* null rule id; and an ALLOW with a null httpRequest.
FileNumber == <<JsonLine(ExampleLogs[4]), JsonLine(NonObject("number"))>>
FileNullTimestamp == <<JsonLine(WithNull(ExampleLogs[4], "timestamp"))>>
FileNullHttp == <<JsonLine(WithNull(ExampleLogs[1], "httpRequest"))>>
FileNullRule == <<JsonLine(WithNull(ExampleLogs[3], "terminatingRuleId"))>>
FileAllowNullHttp == <<JsonLine(WithNull(ExampleLogs[5], "httpRequest"))>>
FetchOutcomes ==
    {Failed("get_object"), Failed("decompress"), Failed("decode"),
     Retrieved(FileMixed), Retrieved(FileClean), Retrieved(FileBlank)}

\* max_files: <<>> stands for None, <<n>> for the integer n.
NoCap == <<>>
Cap(n) == <<n>>

\* `max_files and processed_files >= max_files`: None and 0 are false.
Capped(cap, processed) == cap # NoCap /\ cap[1] # 0 /\ processed >= cap[1]

\* The exception of a retrieval leaves download_and_parse_logs.
FetchedOrRaise(ls, processed, out, key, outcome) ==
    LET shown == Append(out, <<Text("Processing"), Text(key)>>)
    IN  IF outcome.stage # "ok"
        THEN [logs |-> ls, processed_files |-> processed, stdout |-> shown, pc |-> "raised"]
        ELSE [logs |-> Parsed(ls, StripSplit(outcome.lines)),
              processed_files |-> processed + 1, stdout |-> shown, pc |-> "fetch"]

\* The counter counts the keys visited: a file that fails is counted too.
FetchedCounted(ls, processed, out, key, outcome) ==
    LET shown == Append(out, <<Text("Processing"), Text(key)>>)
    IN  IF outcome.stage # "ok"
        THEN [logs |-> ls, processed_files |-> processed + 1,
              stdout |-> Append(shown, <<Text("Error processing"), Text(key)>>),
              pc |-> "fetch"]
        ELSE [logs |-> Parsed(ls, StripSplit(outcome.lines)),
              processed_files |-> processed + 1, stdout |-> shown, pc |-> "fetch"]

\* The body of the for loop for one key: a failure before the lines are
\* read is printed and leaves logs and the counter alone; otherwise the
\* lines are parsed into logs and the file is counted.
Fetched(ls, processed, out, key, outcome) ==
    LET shown == Append(out, <<Text("Processing"), Text(key)>>)
    IN  IF outcome.stage # "ok"
        THEN [logs |-> ls, processed_files |-> processed,
              stdout |-> Append(shown, <<Text("Error processing"), Text(key)>>),
              pc |-> "fetch"]
        ELSE [logs |-> Parsed(ls, StripSplit(outcome.lines)),
              processed_files |-> processed + 1, stdout |-> shown, pc |-> "fetch"]

\* for log_file in log_files: one key, unless the cap breaks the loop.
FetchFileOf(outcomes) ==
    /\ pc = "fetch"
    /\ fidx <= Len(log_files)
    /\ ~Capped(max_files, processed_files)
    /\ \E outcome \in outcomes :
          LET after == Fetched(logs, processed_files, stdout, log_files[fidx], outcome)
          IN  /\ get_calls' = Append(get_calls, [key |-> log_files[fidx],
                                                 at |-> fidx,
                                                 outcome |-> outcome])
              /\ logs' = after.logs
              /\ processed_files' = after.processed_files
              /\ stdout' = after.stdout
              /\ pc' = after.pc
    /\ fidx' = fidx + 1
    /\ UNCHANGED <<tz, idx, analysis, first, report, fs, output_file, charts,
                   start_date, end_date, current_date, log_files, list_calls,
                   max_files, cli, scripts>>

FetchFile == FetchFileOf(FetchOutcomes)

\* The loop is over, by exhaustion or by the break: the summary is printed
\* and logs returned.
FetchReturn ==
    /\ pc = "fetch"
    /\ fidx > Len(log_files) \/ Capped(max_files, processed_files)
    /\ stdout' = Append(stdout, <<Stat("Processed files", processed_files),
                                  Stat("parsed log entries", Len(logs))>>)
    /\ pc' = "fetched"
    /\ UNCHANGED <<logs, tz, idx, analysis, first, report, fs, output_file, charts,
                   storage, cli, scripts>>

----------------------------------------------------------------------------
(* main of the analyzer *)

\* Two hyphens inside the string make a date, whatever is between them.
strptimeLenient(s) ==
    LET dashes == {i \in 1..Len(s) : s[i] = "-"}
    IN  IF Cardinality(dashes) = 2 /\ dashes \subseteq 2..(Len(s) - 1)
        THEN [ok |-> TRUE, date |-> Date(2024, 1, 1)]
        ELSE [ok |-> FALSE, date |-> Date(1, 1, 1)]

\* datetime.strptime(s, '%Y-%m-%d'): four digits of a year from 1 on, one or
\* two digits of a month, one or two digits of a day of that month, with a
\* hyphen between them and nothing else; ValueError otherwise.
strptime(s) ==
    LET dashes == {i \in 1..Len(s) : s[i] = "-"}
        d1 == CHOOSE i \in dashes : \A j \in dashes : i <= j
        d2 == CHOOSE i \in dashes : \A j \in dashes : j <= i
        y == SubSeq(s, 1, d1 - 1)
        m == SubSeq(s, d1 + 1, d2 - 1)
        d == SubSeq(s, d2 + 1, Len(s))
    IN  IF /\ Cardinality(dashes) = 2
           /\ Len(y) = 4 /\ IsDigits(y) /\ NumOf(y) >= 1
           /\ Len(m) \in 1..2 /\ IsDigits(m) /\ NumOf(m) \in 1..12
           /\ Len(d) \in 1..2 /\ IsDigits(d)
           /\ NumOf(d) \in 1..DaysInMonth(NumOf(y), NumOf(m))
        THEN [ok |-> TRUE, date |-> Date(NumOf(y), NumOf(m), NumOf(d))]
        ELSE [ok |-> FALSE, date |-> Date(1, 1, 1)]

\* parse_args(): the namespace, or the usage error that ends the process
\* with status 2 when a required option is missing.
UsageError == [usage_error |-> TRUE]
Namespace(sd, ed, cap, out, nc) ==
    [usage_error |-> FALSE, start_date |-> sd, end_date |-> ed, max_files |-> cap,
     output_report |-> out, no_charts |-> nc]

\* The process ends with this status.
Exit(status) ==
    /\ exit_code' = status
    /\ main_pc' = "exited"
    /\ UNCHANGED <<args, VISUALIZATION_AVAILABLE>>

\* main moves on to its next stage.
Goto(stage) ==
    /\ main_pc' = stage
    /\ UNCHANGED <<args, VISUALIZATION_AVAILABLE, exit_code>>

\* Lines 333-348: the arguments are parsed, then the two dates; the locator
\* is called when both dates parse.
MainStart ==
    /\ main_pc = "start"
    /\ IF args.usage_error
       THEN /\ Exit(2)
            /\ UNCHANGED <<stdout, storage, pc>>
       ELSE LET sd == strptime(args.start_date)
                ed == strptime(args.end_date)
            IN  IF ~sd.ok \/ ~ed.ok
                THEN /\ stdout' = Append(stdout,
                                    <<Text("Error: Date format should be YYYY-MM-DD")>>)
                     /\ Exit(1)
                     /\ UNCHANGED <<storage, pc>>
                ELSE /\ stdout' = Append(stdout, <<Text("Searching for log files")>>)
                     /\ start_date' = sd.date
                     /\ end_date' = ed.date
                     /\ current_date' = sd.date
                     /\ log_files' = <<>>
                     /\ pc' = "locate"
                     /\ Goto("locating")
                     /\ UNCHANGED <<list_calls, max_files, processed_files, fidx,
                                    get_calls>>
    /\ UNCHANGED <<logs, tz, idx, analysis, first, report, fs, output_file, charts,
                   scripts>>

\* Lines 350-357: no key ends the run with status 1; otherwise the
\* fetcher/parser is called with the keys and --max-files.
MainLocated ==
    /\ main_pc = "locating"
    /\ pc = "located"
    /\ IF log_files = <<>>
       THEN /\ stdout' = Append(stdout,
                           <<Text("No log files found for the specified date range")>>)
            /\ Exit(1)
            /\ UNCHANGED <<pc, logs, max_files, processed_files, fidx>>
       ELSE /\ stdout' = Append(stdout, <<Stat("Found log files", Len(log_files))>>)
            /\ logs' = <<>>
            /\ max_files' = args.max_files
            /\ processed_files' = 0
            /\ fidx' = 1
            /\ pc' = "fetch"
            /\ Goto("fetching")
    /\ UNCHANGED <<tz, idx, analysis, first, report, fs, output_file, charts,
                   start_date, end_date, current_date, log_files, list_calls,
                   get_calls, scripts>>

\* Lines 359-365: no record ends the run with status 1; otherwise the
\* aggregator is called with the records.
MainFetched ==
    /\ main_pc = "fetching"
    /\ pc = "fetched"
    /\ IF logs = <<>>
       THEN /\ stdout' = Append(stdout, <<Text("No log entries found")>>)
            /\ Exit(1)
            /\ UNCHANGED pc
       ELSE /\ stdout' = Append(stdout, <<Text("Analyzing threat patterns...")>>)
            /\ pc' = "idle"
            /\ Goto("analyzing")
    /\ UNCHANGED <<logs, tz, idx, analysis, first, report, fs, output_file, charts,
                   storage, scripts>>

\* Line 368: the analysis is back.
MainAnalyzed ==
    /\ main_pc = "analyzing"
    /\ pc = "analyzed"
    /\ stdout' = Append(stdout, <<Text("Generating security report...")>>)
    /\ Goto("reporting")
    /\ UNCHANGED <<logs, tz, pc, idx, analysis, first, report, fs, output_file, charts,
                   storage, scripts>>

\* Line 369: analyzer.generate_report(analysis, args.output_report)
MainReport ==
    /\ main_pc = "reporting"
    /\ GenerateReport
    /\ output_file' = args.output_report

\* Lines 372-380 when no chart is drawn: --no-charts, or the libraries are
\* missing and the warning is printed.  main returns.
MainSkipCharts ==
    /\ main_pc = "reporting"
    /\ pc = "reported"
    /\ args.no_charts \/ ~VISUALIZATION_AVAILABLE
    /\ stdout' = (IF args.no_charts THEN stdout
                  ELSE stdout \o <<<<Text("Warning: matplotlib/seaborn/pandas not installed")>>,
                                   <<Text("Install with: pip install")>>>>)
                 \o <<<<Text("Analysis complete!")>>>>
    /\ Exit(0)
    /\ UNCHANGED <<logs, tz, pc, idx, analysis, first, report, fs, output_file, charts,
                   storage, scripts>>

\* Lines 372-375: the charts are to be drawn.
MainReported ==
    /\ main_pc = "reporting"
    /\ pc = "reported"
    /\ ~args.no_charts /\ VISUALIZATION_AVAILABLE
    /\ stdout' = Append(stdout, <<Text("Creating visualizations...")>>)
    /\ Goto("charting")
    /\ UNCHANGED <<logs, tz, pc, idx, analysis, first, report, fs, output_file, charts,
                   storage, scripts>>

\* Line 375: analyzer.create_visualizations(analysis, args.output_charts)
MainCharts ==
    /\ main_pc = "charting"
    /\ CreateVisualizationsOn(VISUALIZATION_AVAILABLE)

\* Line 380 after the charts: main returns.
MainCharted ==
    /\ main_pc = "charting"
    /\ pc = "charted"
    /\ stdout' = Append(stdout, <<Text("Analysis complete!")>>)
    /\ Exit(0)
    /\ UNCHANGED <<logs, tz, pc, idx, analysis, first, report, fs, output_file, charts,
                   storage, scripts>>

\* main catches nothing but the ValueError of the dates: an exception that
\* leaves a stage leaves main, and the interpreter ends with status 1.
MainUncaught ==
    /\ main_pc \notin {"none", "exited"}
    /\ pc = "raised"
    /\ Exit(1)
    /\ UNCHANGED <<logs, tz, pc, idx, analysis, first, report, stdout, fs, output_file,
                   charts, storage, scripts>>

----------------------------------------------------------------------------
(* The validator script: tests/test_aws_infrastructure.py *)

\* A file as a check meets it: missing, there but failing to open or to be
\* read, or read.  What is read is held as far as the checks look at it:
\* the white space it begins with (lead), the text that follows it (starts),
\* the substrings searched for that occur in it (has), what json.load makes
\* of it (json), and whether the file may be executed.
MissingFile == [state |-> "missing", lead |-> "", starts |-> "", has |-> {},
                json |-> [kind |-> "invalid", items |-> <<>>], executable |-> FALSE]
UnreadableFile == [MissingFile EXCEPT !.state = "unreadable", !.executable = TRUE]
TextFile(lead, starts, has) ==
    [state |-> "ok", lead |-> lead, starts |-> starts, has |-> has,
     json |-> [kind |-> "invalid", items |-> <<>>], executable |-> TRUE]
JsonFile(kind, items) ==
    [state |-> "ok", lead |-> "", starts |-> "", has |-> {},
     json |-> [kind |-> kind, items |-> items], executable |-> FALSE]

\* What a check does: it returns True or False, or an exception leaves it.
RequiredSections == {"AWSTemplateFormatVersion:", "Description:", "Parameters:",
                     "Resources:", "Outputs:"}
RequiredResources == {"VPC:", "InternetGateway:", "PublicSubnet1:", "PublicSubnet2:",
                      "PrivateSubnet1:", "PrivateSubnet2:", "DatabaseSubnet1:",
                      "DatabaseSubnet2:", "ApplicationLoadBalancer:",
                      "AutoScalingGroup:", "DatabaseCluster:", "StaticWebsiteBucket:"}
CfFunctions == {"!Ref", "!GetAtt", "!Sub", "!Select", "!GetAZs"}
MinFunctions == 3

\* test_cloudformation_template: lines 12-68.
test_cloudformation_template(files) ==
    LET f == files[1]
    IN  IF f.state = "missing" THEN "False"
        ELSE IF f.state = "unreadable" THEN "False"
        ELSE IF ~(RequiredSections \subseteq f.has) THEN "False"
        ELSE IF ~(RequiredResources \subseteq f.has) THEN "False"
        ELSE IF Cardinality(CfFunctions \cap f.has) < MinFunctions THEN "False"
        ELSE "True"

\* A loop over two files that returns False at the first file that fails
\* and True after the second.
BothFiles(one, other) == IF one # "True" THEN one ELSE other

\* test_parameter_files, the body of the loop: lines 80-110.  p.get on an
\* entry that is no dict raises AttributeError, which the last except
\* clause takes.
RequiredParams == {"EnvironmentName", "VpcCIDR", "DBUsername", "DBPassword"}
ParameterFileValid(f) ==
    IF f.state = "missing" THEN "False"
    ELSE IF f.state = "unreadable" THEN "False"
    ELSE IF f.json.kind = "invalid" THEN "False"
    ELSE IF f.json.kind # "list" THEN "False"
    ELSE IF \E i \in 1..Len(f.json.items) : ~f.json.items[i].dict THEN "False"
    ELSE IF ~(RequiredParams \subseteq
                {f.json.items[i].ParameterKey : i \in 1..Len(f.json.items)}) THEN "False"
    ELSE "True"
test_parameter_files(files) == BothFiles(ParameterFileValid(files[1]), ParameterFileValid(files[2]))

\* test_static_website, the body of the loop: lines 124-147.  strip() takes
\* the leading white space away before startswith looks.
WebsiteFileValid(f) ==
    IF f.state = "missing" THEN "False"
    ELSE IF f.state = "unreadable" THEN "False"
    ELSE IF f.starts # "<!DOCTYPE html>" THEN "False"
    ELSE IF ~({"<html", "</html>"} \subseteq f.has) THEN "False"
    ELSE "True"
test_static_website(files) == BothFiles(WebsiteFileValid(files[1]), WebsiteFileValid(files[2]))

\* test_application_code: lines 151-184.
RequiredComponents == {"class ThreeTierAppHandler", "def serve_health_check",
                       "def serve_instance_info", "def serve_database_info",
                       "if __name__ == '__main__':"}
test_application_code(files) ==
    LET f == files[1]
    IN  IF f.state = "missing" THEN "False"
        ELSE IF f.state = "unreadable" THEN "False"
        ELSE IF ~(RequiredComponents \subseteq f.has) THEN "False"
        ELSE "True"

\* test_deployment_scripts, the body of the loop: lines 196-220.  os.access
\* answers before the file is opened; startswith looks at the very
\* beginning of the content.
ScriptValid(f) ==
    IF f.state = "missing" THEN "False"
    ELSE IF ~f.executable THEN "False"
    ELSE IF f.state = "unreadable" THEN "False"
    ELSE IF f.lead # "" \/ f.starts # "#!/bin/bash" THEN "False"
    ELSE "True"
test_deployment_scripts(files) == BothFiles(ScriptValid(files[1]), ScriptValid(files[2]))

\* tests = [...]: the five checks in the order of the list.
Total == 5
RunTest(n, files) ==
    CASE n = 1 -> test_cloudformation_template(files)
      [] n = 2 -> test_parameter_files(files)
      [] n = 3 -> test_static_website(files)
      [] n = 4 -> test_application_code(files)
      [] n = 5 -> test_deployment_scripts(files)

\* The loop is left at the first check that fails.
TalliedOrStopped(v, files, result) ==
    IF result = "raised"
    THEN [v EXCEPT !.pc = "raised", !.seen = Append(@, files),
                   !.results = Append(@, result), !.returned = 1]
    ELSE [v EXCEPT !.seen = Append(@, files),
                   !.results = Append(@, result),
                   !.passed = IF result = "True" THEN @ + 1 ELSE @,
                   !.stdout = IF result = "True" THEN @ ELSE Append(@, "Test failed!"),
                   !.test = IF result = "True" THEN @ + 1 ELSE Total + 1]

\* The body of `for test in tests:` for the check that returned result on
\* files: it is counted when True, "Test failed!" is printed otherwise; an
\* exception that leaves the check leaves main, status 1.
Tallied(v, files, result) ==
    IF result = "raised"
    THEN [v EXCEPT !.pc = "raised", !.seen = Append(@, files),
                   !.results = Append(@, result), !.returned = 1]
    ELSE [v EXCEPT !.seen = Append(@, files),
                   !.results = Append(@, result),
                   !.passed = IF result = "True" THEN @ + 1 ELSE @,
                   !.stdout = IF result = "True" THEN @ ELSE Append(@, "Test failed!"),
                   !.test = @ + 1]

\* The files the checks may meet.
TemplateFull == RequiredSections \cup RequiredResources \cup {"!Ref", "!GetAtt", "!Sub"}
TemplateFiles ==
    { MissingFile, UnreadableFile,
      TextFile("", "AWSTemplateFormatVersion:", TemplateFull),
      TextFile("", "AWSTemplateFormatVersion:", TemplateFull \ {"Outputs:"}),
      TextFile("", "AWSTemplateFormatVersion:", TemplateFull \ {"DatabaseCluster:"}),
      TextFile("", "AWSTemplateFormatVersion:", TemplateFull \ {"!Sub"}) }
Param(key) == [dict |-> TRUE, ParameterKey |-> key]
AllParams == <<Param("EnvironmentName"), Param("VpcCIDR"), Param("DBUsername"),
               Param("DBPassword")>>
ParameterFiles ==
    { MissingFile, UnreadableFile,
      JsonFile("invalid", <<>>),
      JsonFile("object", <<>>),
      JsonFile("list", <<[dict |-> FALSE, ParameterKey |-> None]>>),
      JsonFile("list", SubSeq(AllParams, 1, 3) \o <<Param(None)>>),
      JsonFile("list", AllParams) }
WebsiteFiles ==
    { MissingFile, UnreadableFile,
      TextFile("", "<html>", {"<html", "</html>"}),
      TextFile("", "<!DOCTYPE html>", {"<html"}),
      TextFile(" ", "<!DOCTYPE html>", {"<html", "</html>"}),
      TextFile("", "<!DOCTYPE html>", {"<html", "</html>"}) }
ApplicationFiles ==
    { MissingFile, UnreadableFile,
      TextFile("", "#!/usr/bin/env python3", RequiredComponents \ {"def serve_health_check"}),
      TextFile("", "#!/usr/bin/env python3", RequiredComponents) }
ScriptFiles ==
    { MissingFile, UnreadableFile,
      [TextFile("", "#!/bin/bash", {}) EXCEPT !.executable = FALSE],
      TextFile(" ", "#!/bin/bash", {}),
      TextFile("", "#!/bin/sh", {}),
      TextFile("", "#!/bin/bash", {}) }

\* Pairs of files of which at most one is not the valid one.
Pairs(files, valid(_)) ==
    {<<f, g>> : f \in {h \in files : valid(h) = "True"}, g \in files}
    \cup {<<f, g>> : f \in files, g \in {h \in files : valid(h) = "True"}}
TestFiles(n) ==
    CASE n = 1 -> {<<f>> : f \in TemplateFiles}
      [] n = 2 -> Pairs(ParameterFiles, ParameterFileValid)
      [] n = 3 -> Pairs(WebsiteFiles, WebsiteFileValid)
      [] n = 4 -> {<<f>> : f \in ApplicationFiles}
      [] n = 5 -> Pairs(ScriptFiles, ScriptValid)

\* One round of the loop of main: the next check is called.
ValidatorTest ==
    /\ validator.pc = "running"
    /\ validator.test <= Total
    /\ \E files \in TestFiles(validator.test) :
          validator' = Tallied(validator, files, RunTest(validator.test, files))
    /\ UNCHANGED <<logs, tz, pc, idx, analysis, first, report, stdout, fs, output_file,
                   charts, storage, cli, copilot>>

\* Lines 243-252: the results are printed, main returns 0 when every check
\* passed and 1 otherwise, and sys.exit makes it the status.
ValidatorReturn ==
    /\ validator.pc = "running"
    /\ validator.test > Total
    /\ validator' = [validator EXCEPT
                        !.pc = "returned",
                        !.stdout = @ \o <<"Test Results",
                                          IF validator.passed = Total
                                          THEN "All tests passed!"
                                          ELSE "Some tests failed!">>,
                        !.returned = IF validator.passed = Total THEN 0 ELSE 1]
    /\ UNCHANGED <<logs, tz, pc, idx, analysis, first, report, stdout, fs, output_file,
                   charts, storage, cli, copilot>>

----------------------------------------------------------------------------
(* The copilot application: copilot_app.py *)

\* str.upper(), on the letters a-z and A-Z.
upper(s) == [i \in 1..Len(s) |-> IF s[i] \in DOMAIN ToUpper THEN ToUpper[s[i]] ELSE s[i]]

\* str.title(): a letter that follows no letter becomes upper case, a
\* letter that follows a letter lower case.
IsLetter(c) == c \in DOMAIN ToUpper \/ c \in DOMAIN ToLower
title(s) ==
    [i \in 1..Len(s) |->
        IF i = 1 \/ ~IsLetter(s[i - 1])
        THEN (IF s[i] \in DOMAIN ToUpper THEN ToUpper[s[i]] ELSE s[i])
        ELSE (IF s[i] \in DOMAIN ToLower THEN ToLower[s[i]] ELSE s[i])]

\* text[::-1]
reverse(s) == [i \in 1..Len(s) |-> s[Len(s) + 1 - i]]

\* str(len(text.split())): the words are the runs of characters that are no
\* white space.
word_count(s) ==
    Str(Cardinality({i \in 1..Len(s) : s[i] # " " /\ (i = 1 \/ s[i - 1] = " ")}))

\* The keys of the dict `operations`.
Operations == {"upper", "lower", "title", "reverse", "word_count"}

\* An operation that is not known leaves the text as it is.
process_text_lenient(text, operation) ==
    [raised |-> "none",
     value |-> CASE operation = "upper" -> upper(text)
                 [] operation = "lower" -> lower(text)
                 [] operation = "title" -> title(text)
                 [] operation = "reverse" -> reverse(text)
                 [] operation = "word_count" -> word_count(text)
                 [] OTHER -> text]

\* process_text(text, operation): lines 38-55.
process_text(text, operation) ==
    IF operation \notin Operations
    THEN [raised |-> "ValueError", value |-> <<>>]
    ELSE [raised |-> "none",
          value |-> CASE operation = "upper" -> upper(text)
                      [] operation = "lower" -> lower(text)
                      [] operation = "title" -> title(text)
                      [] operation = "reverse" -> reverse(text)
                      [] operation = "word_count" -> word_count(text)]

\* What the file system does to read_file and write_file, and the platform
\* module to get_system_info.
ReadOutcomes == {"missing", "unreadable", "ok"}
WriteOutcomes == {"error", "ok"}
InfoOutcomes == {"error", "ok"}

\* read_file(filepath): lines 57-71.
read_file(outcome) ==
    IF outcome = "missing" THEN [raised |-> "FileNotFoundError", value |-> <<>>]
    ELSE IF outcome = "unreadable" THEN [raised |-> "OSError", value |-> <<>>]
    ELSE [raised |-> "none", value |-> <<"c", "o", "n", "t", "e", "n", "t">>]

\* write_file(filepath, content): lines 73-83.
write_file(outcome) ==
    IF outcome = "error" THEN [raised |-> "OSError", value |-> <<>>]
    ELSE [raised |-> "none", value |-> <<>>]

\* get_system_info(): lines 85-98.
get_system_info(outcome) ==
    IF outcome = "error" THEN [raised |-> "OSError", value |-> <<>>]
    ELSE [raised |-> "none", value |-> <<"i", "n", "f", "o">>]

\* A caller calls process_text on its text.
ProcessText ==
    /\ copilot.pc = "call"
    /\ LET r == process_text(copilot.text, copilot.operation)
       IN  copilot' = IF r.raised # "none"
                      THEN [copilot EXCEPT !.pc = "raised", !.raised = r.raised]
                      ELSE [copilot EXCEPT !.pc = "called", !.results = <<r.value>>]
    /\ UNCHANGED <<logs, tz, pc, idx, analysis, first, report, stdout, fs, output_file,
                   charts, storage, cli, validator>>

\* The caller calls process_text once more, on the result and with the
\* same operation.
ProcessTextAgain ==
    /\ copilot.pc = "called"
    /\ Len(copilot.results) = 1
    /\ LET r == process_text(copilot.results[1], copilot.operation)
       IN  copilot' = IF r.raised # "none"
                      THEN [copilot EXCEPT !.pc = "raised", !.raised = r.raised]
                      ELSE [copilot EXCEPT !.results = Append(@, r.value)]
    /\ UNCHANGED <<logs, tz, pc, idx, analysis, first, report, stdout, fs, output_file,
                   charts, storage, cli, validator>>

\* if not args.command: parser.print_help(); return 1   (lines 125-129)
CopilotNoCommand ==
    /\ copilot.pc = "main"
    /\ copilot.argv.command = "none"
    /\ copilot' = [copilot EXCEPT !.pc = "returned", !.stdout = Append(@, "usage"),
                                  !.returned = 1]
    /\ UNCHANGED <<logs, tz, pc, idx, analysis, first, report, stdout, fs, output_file,
                   charts, storage, cli, validator>>

\* The end of the try block of main, lines 131-159: an exception of the
\* operation is logged and main returns 1; main returns 0 otherwise.
Ran(c, r, shown) ==
    IF r.raised # "none"
    THEN [c EXCEPT !.pc = "returned", !.raised = r.raised, !.returned = 1]
    ELSE [c EXCEPT !.pc = "returned", !.results = <<r.value>>,
                   !.stdout = Append(@, shown), !.returned = 0]

\* The try block of main for one command; the file command without a
\* truthy --read and without --write returns 1.
CopilotCommand ==
    /\ copilot.pc = "main"
    /\ copilot.argv.command # "none"
    /\ LET a == copilot.argv
       IN  CASE a.command = "text" ->
                  copilot' = Ran(copilot, process_text(a.input_text, a.operation), "Result")
             [] a.command = "file" /\ Truthy(a.read) ->
                  \E outcome \in ReadOutcomes :
                      copilot' = Ran(copilot, read_file(outcome), "File content")
             [] a.command = "file" /\ ~Truthy(a.read) /\ a.write # <<>> ->
                  \E outcome \in WriteOutcomes :
                      copilot' = Ran(copilot, write_file(outcome), "Content written")
             [] a.command = "file" /\ ~Truthy(a.read) /\ a.write = <<>> ->
                  copilot' = [copilot EXCEPT
                                 !.pc = "returned",
                                 !.stdout = Append(@, "Please specify --read or --write operation"),
                                 !.returned = 1]
             [] a.command = "info" ->
                  \E outcome \in InfoOutcomes :
                      copilot' = Ran(copilot, get_system_info(outcome), "System Information")
    /\ UNCHANGED <<logs, tz, pc, idx, analysis, first, report, stdout, fs, output_file,
                   charts, storage, cli, validator>>

----------------------------------------------------------------------------
(* Specifications *)

\* No run has completed yet.
NoRun == [set |-> FALSE, logs |-> <<>>, analysis |-> ZeroAnalysis]

\* No file has been written yet.
NoFile == [path |-> None, content |-> <<>>]

\* The report file of an earlier run.
StaleFile == [path |-> "report.txt", content |-> <<Text("earlier report")>>]

\* The locator and the fetcher have not been called.
StorageIdle ==
    /\ start_date = None
    /\ end_date = None
    /\ current_date = None
    /\ log_files = <<>>
    /\ list_calls = <<>>
    /\ max_files = <<>>
    /\ processed_files = 0
    /\ fidx = 1
    /\ get_calls = <<>>

\* main of the analyzer is not running, nor is either of the other scripts.
NoExit == -1
ValidatorIdle == [pc |-> "none", test |-> 1, passed |-> 0, results |-> <<>>,
                  seen |-> <<>>, stdout |-> <<>>, returned |-> NoExit]
NoArgv == [command |-> "none", input_text |-> <<>>, operation |-> "none",
           read |-> None, write |-> <<>>]
CopilotIdle == [pc |-> "none", argv |-> NoArgv, text |-> <<>>, operation |-> "none",
                results |-> <<>>, raised |-> "none", stdout |-> <<>>, returned |-> NoExit]
OthersIdle ==
    /\ args = <<>>
    /\ VISUALIZATION_AVAILABLE = TRUE
    /\ main_pc = "none"
    /\ exit_code = NoExit
    /\ validator = ValidatorIdle
    /\ copilot = CopilotIdle

\* Neither renderer has been called.
RenderIdle ==
    /\ report = <<>>
    /\ stdout = <<>>
    /\ output_file = None
    /\ charts = NoCharts

Init ==
    /\ logs \in BoundedSeq(LogRecords, MaxLogs) \cup {ExampleLogs}
    /\ tz \in TzOffsets
    /\ pc = "idle"
    /\ idx = 1
    /\ analysis = ZeroAnalysis
    /\ first = NoRun
    /\ fs = NoFile
    /\ RenderIdle
    /\ OthersIdle
    /\ StorageIdle

Next == AnalyzeStart \/ AnalyzeStep \/ AnalyzeReturn \/ GenerateReport

\* One run of the aggregator followed by the report renderer.
Spec == Init /\ [][Next]_vars

InitRerun ==
    /\ logs \in BoundedSeq(ShuffleRecords, MaxShuffleLogs)
    /\ tz \in TzOffsets
    /\ pc = "idle"
    /\ idx = 1
    /\ analysis = ZeroAnalysis
    /\ first = NoRun
    /\ fs = NoFile
    /\ RenderIdle
    /\ OthersIdle
    /\ StorageIdle

NextRerun == AnalyzeStart \/ AnalyzeStep \/ AnalyzeReturn \/ AnalyzeAgain

\* Repeated runs of the aggregator on one analyzer.
SpecRerun == InitRerun /\ [][NextRerun]_vars

\* A BLOCK record at the epoch whose rule id, country, client IP and URI
\* are the i-th of their kind; the rule id holds no keyword.
KeyedBlock(i) ==
    [action |-> "BLOCK", timestamp |-> 0,
     terminatingRuleId |-> <<"r", "u", "l", "e", "-", LowerCase[i]>>,
     httpRequest |-> [country  |-> <<"c", "c", "-", LowerCase[i]>>,
                      clientIP |-> <<"i", "p", "-", LowerCase[i]>>,
                      uri      |-> <<"/", LowerCase[i]>>]]

\* Runs of BLOCK records: n distinct keys in turn, then the keys e[1..m]
\* (in non-decreasing order) once more each.
BlockRuns ==
    UNION {
        { [i \in 1..(n + m) |-> IF i <= n THEN KeyedBlock(i) ELSE KeyedBlock(e[i - n])] :
            e \in {f \in [1..m -> 1..n] : \A i \in 1..(m - 1) : f[i] <= f[i + 1]} }
        : n \in 0..MaxKeys, m \in 0..MaxRepeats }

\* analyze_threat_patterns(logs) as a whole: the loop run to its end.
RECURSIVE AnalyzeUpTo(_, _, _)
AnalyzeUpTo(ls, n, z) ==
    IF n = 0 THEN NewAnalysis(ls)
    ELSE ProcessRecord(AnalyzeUpTo(ls, n - 1, z), ls[n], z)
analyze_threat_patterns(ls, z) == AnalyzeUpTo(ls, Len(ls), z)

\* generate_report is called with the analysis of a run of up to MaxKeys
\* keys per table.
InitReport ==
    /\ logs \in BlockRuns
    /\ tz = 0
    /\ pc = "analyzed"
    /\ idx = Len(logs) + 1
    /\ analysis = analyze_threat_patterns(logs, tz)
    /\ first = NoRun
    /\ fs = StaleFile
    /\ RenderIdle
    /\ OthersIdle
    /\ StorageIdle

NextReport == GenerateReport \/ CreateVisualizations

\* The renderers on large tables, a report file of an earlier run in place.
SpecReport == InitReport /\ [][NextReport]_vars

\* Tables of up to MaxMethods of the five categories with counts of up to
\* MaxMethodCount, in any insertion order.
Categories == {"SQL Injection", "XSS", "Rate Limiting", "Geo Blocking", "Other"}
MethodTables ==
    UNION { { [i \in 1..n |-> [k |-> ks[i], n |-> ns[i]]] :
                ks \in {f \in [1..n -> Categories] :
                            \A i, j \in 1..n : f[i] = f[j] => i = j},
                ns \in [1..n -> 1..MaxMethodCount] }
            : n \in 0..MaxMethods }

\* A table of one key more than a top-ten section lists.
ManyNames == <<"Category A", "Category B", "Category C", "Category D",
               "Category E", "Category F", "Category G", "Category H",
               "Category I", "Category J", "Category K">>
ManyMethods == [i \in 1..Len(ManyNames) |-> [k |-> ManyNames[i], n |-> 1 + (i % 2)]]

\* generate_report is called with an analysis dictionary built by hand:
\* any attack_methods table next to any blocked_requests count.
InitRender ==
    /\ logs = <<>>
    /\ tz = 0
    /\ pc = "analyzed"
    /\ idx = 1
    /\ \E b \in 0..MaxBlocked, m \in MethodTables \cup {ManyMethods} :
          analysis = [ZeroAnalysis EXCEPT !.total_requests = b,
                                          !.blocked_requests = b,
                                          !.attack_methods = m]
    /\ first = NoRun
    /\ fs = NoFile
    /\ RenderIdle
    /\ OthersIdle
    /\ StorageIdle

NextRender == GenerateReport

\* The report renderer on any analysis dictionary.
SpecRender == InitRender /\ [][NextRender]_vars

\* The days the ranges are drawn from: the turn of a year, the end of
\* February in a leap year and in a common year.
BaseDates == {Date(2023, 12, 30), Date(2024, 2, 28), Date(2023, 2, 27)}
RECURSIVE AddDays(_, _)
AddDays(dt, n) == IF n = 0 THEN dt ELSE NextDay(AddDays(dt, n - 1))

\* get_log_files(start_date, end_date) is called, log_files = [] and
\* current_date = start_date are set; the range may be empty.
InitLocate ==
    /\ logs = <<>>
    /\ tz = 0
    /\ pc = "locate"
    /\ idx = 1
    /\ analysis = ZeroAnalysis
    /\ first = NoRun
    /\ fs = NoFile
    /\ RenderIdle
    /\ OthersIdle
    /\ \E base \in BaseDates, i, j \in 0..(MaxDays - 1) :
          /\ start_date = AddDays(base, i)
          /\ end_date = AddDays(base, j)
    /\ current_date = start_date
    /\ log_files = <<>>
    /\ list_calls = <<>>
    /\ max_files = NoCap
    /\ processed_files = 0
    /\ fidx = 1
    /\ get_calls = <<>>

\* The key sequences handed to the fetcher: up to MaxFiles keys, and one
\* that holds a key twice.
FileKey(i) == <<LowerCase[i]>> \o GzSuffix
FetchInputs ==
    {[i \in 1..n |-> FileKey(i)] : n \in 0..MaxFiles} \cup {<<FileKey(1), FileKey(1)>>}

\* download_and_parse_logs(log_files, max_files) is called, logs = [] and
\* processed_files = 0 are set.
InitFetch ==
    /\ logs = <<>>
    /\ tz = 0
    /\ pc = "fetch"
    /\ idx = 1
    /\ analysis = ZeroAnalysis
    /\ first = NoRun
    /\ fs = NoFile
    /\ RenderIdle
    /\ OthersIdle
    /\ start_date = None
    /\ end_date = None
    /\ current_date = None
    /\ log_files \in FetchInputs
    /\ list_calls = <<>>
    /\ max_files \in {NoCap} \cup {Cap(n) : n \in 0..MaxCap}
    /\ processed_files = 0
    /\ fidx = 1
    /\ get_calls = <<>>

InitStorage == InitLocate \/ InitFetch

NextStorage == ListDay \/ LocateReturn \/ FetchFile \/ FetchReturn

\* A run of the locator, or a run of the fetcher/parser.
SpecStorage == InitStorage /\ [][NextStorage]_vars

\* Python runs a call to its end: a loop that can take a step takes it.
SpecStorageFair == SpecStorage /\ WF_vars(NextStorage)

\* The command lines of the analyzer: date strings that parse (padded or
\* not, the range of one day, of two days or empty) and that do not (a day
\* the month has not, another format), with and without --max-files,
\* --output-report and --no-charts; and one that lacks a required option.
DateStrings ==
    { <<<<"2", "0", "2", "4", "-", "0", "1", "-", "0", "1">>, <<"2", "0", "2", "4", "-", "0", "1", "-", "0", "1">>>>,
      <<<<"2", "0", "2", "3", "-", "1", "2", "-", "3", "1">>, <<"2", "0", "2", "4", "-", "0", "1", "-", "0", "1">>>>,
      <<<<"2", "0", "2", "4", "-", "1", "-", "1">>, <<"2", "0", "2", "4", "-", "0", "1", "-", "1">>>>,
      <<<<"2", "0", "2", "4", "-", "0", "1", "-", "0", "2">>, <<"2", "0", "2", "4", "-", "0", "1", "-", "0", "1">>>>,
      <<<<"2", "0", "2", "3", "-", "0", "2", "-", "3", "0">>, <<"2", "0", "2", "3", "-", "0", "3", "-", "0", "1">>>>,
      <<<<"2", "0", "2", "4", "-", "0", "1", "-", "0", "1">>, <<"0", "1", "/", "0", "1", "/", "2", "0", "2", "4">>>> }
CommandLines ==
    {UsageError} \cup
    { Namespace(ds[1], ds[2], o[1], o[2], o[3]) :
        ds \in DateStrings,
        o \in { <<NoCap, None, FALSE>>, <<Cap(1), "report.txt", FALSE>>,
                <<Cap(1), None, TRUE>> } } \cup
    { Namespace(ds[1], ds[2], NoCap, "report.txt", TRUE) :
        ds \in {ds \in DateStrings : ds[1] = ds[2]} }

\* What the store answers during a run of main.
MainListOutcomes(p) ==
    { [raised |-> TRUE, response |-> [KeyCount |-> 0]],
      [raised |-> FALSE, response |-> [KeyCount |-> 0]],
      Listing(<<ObjectKey(p, <<"a">>, GzSuffix)>>),
      Listing(<<ObjectKey(p, <<"b">>, GzSuffix), ObjectKey(p, <<"a">>, GzSuffix)>>) }
MainFetchOutcomes ==
    {Failed("get_object"), Retrieved(FileMixed), Retrieved(FileBlank),
     Retrieved(FileNumber), Retrieved(FileNullTimestamp), Retrieved(FileNullHttp),
     Retrieved(FileNullRule), Retrieved(FileAllowNullHttp)}

\* The process has started and main is about to parse its arguments.
InitMain ==
    /\ logs = <<>>
    /\ tz = 0
    /\ pc = "none"
    /\ idx = 1
    /\ analysis = ZeroAnalysis
    /\ first = NoRun
    /\ fs = NoFile
    /\ RenderIdle
    /\ StorageIdle
    /\ args \in CommandLines
    /\ VISUALIZATION_AVAILABLE \in BOOLEAN
    /\ main_pc = "start"
    /\ exit_code = NoExit
    /\ validator = ValidatorIdle
    /\ copilot = CopilotIdle

MainListDay == main_pc = "locating" /\ ListDayOf(MainListOutcomes(Prefix(current_date)))
MainLocateReturn == main_pc = "locating" /\ LocateReturn
MainFetchFile == main_pc = "fetching" /\ FetchFileOf(MainFetchOutcomes)
MainFetchReturn == main_pc = "fetching" /\ FetchReturn
MainAnalyzeStart == main_pc = "analyzing" /\ AnalyzeStart
MainAnalyzeStep == main_pc = "analyzing" /\ AnalyzeStep
MainAnalyzeReturn == main_pc = "analyzing" /\ AnalyzeReturn

NextMain ==
    \/ MainStart
    \/ MainListDay
    \/ MainLocateReturn
    \/ MainLocated
    \/ MainFetchFile
    \/ MainFetchReturn
    \/ MainFetched
    \/ MainAnalyzeStart
    \/ MainAnalyzeStep
    \/ MainAnalyzeReturn
    \/ MainAnalyzed
    \/ MainReport
    \/ MainSkipCharts
    \/ MainReported
    \/ MainCharts
    \/ MainCharted
    \/ MainUncaught

\* One run of the analyzer from the command line.
SpecMain == InitMain /\ [][NextMain]_vars

\* Python runs main to its end: a stage that can take a step takes it.
SpecMainFair == SpecMain /\ WF_vars(NextMain)

\* The validator script has started: main is about to run its first check.
InitValidator ==
    /\ logs = <<>>
    /\ tz = 0
    /\ pc = "none"
    /\ idx = 1
    /\ analysis = ZeroAnalysis
    /\ first = NoRun
    /\ fs = NoFile
    /\ RenderIdle
    /\ StorageIdle
    /\ args = <<>>
    /\ VISUALIZATION_AVAILABLE = TRUE
    /\ main_pc = "none"
    /\ exit_code = NoExit
    /\ validator = [ValidatorIdle EXCEPT !.pc = "running"]
    /\ copilot = CopilotIdle

NextValidator == ValidatorTest \/ ValidatorReturn

\* One run of the validator script.
SpecValidator == InitValidator /\ [][NextValidator]_vars

\* The texts and the operation names handed to process_text, and the
\* command lines argparse passes on to main of the copilot application: the
\* text command names one of the five operations.
Alphabet == {"a", "B", " "}
Texts == UNION {[1..n -> Alphabet] : n \in 0..MaxText}
OperationNames == Operations \cup {"Upper", "capitalize", ""}
CopilotCommandLines ==
    {NoArgv}
    \cup {[NoArgv EXCEPT !.command = "text", !.input_text = t, !.operation = o] :
            t \in Texts, o \in Operations}
    \cup {[NoArgv EXCEPT !.command = "file", !.read = r, !.write = w] :
            r \in {None, "", "notes.txt"}, w \in {<<>>, <<"out.txt", "hi">>}}
    \cup {[NoArgv EXCEPT !.command = "info"]}

\* process_text is about to be called, or main of the copilot application
\* has parsed its arguments.
InitCopilot ==
    /\ logs = <<>>
    /\ tz = 0
    /\ pc = "none"
    /\ idx = 1
    /\ analysis = ZeroAnalysis
    /\ first = NoRun
    /\ fs = NoFile
    /\ RenderIdle
    /\ StorageIdle
    /\ args = <<>>
    /\ VISUALIZATION_AVAILABLE = TRUE
    /\ main_pc = "none"
    /\ exit_code = NoExit
    /\ validator = ValidatorIdle
    /\ \/ \E t \in Texts, o \in OperationNames :
             copilot = [CopilotIdle EXCEPT !.pc = "call", !.text = t, !.operation = o]
       \/ \E a \in CopilotCommandLines :
             copilot = [CopilotIdle EXCEPT !.pc = "main", !.argv = a]

NextCopilot == ProcessText \/ ProcessTextAgain \/ CopilotNoCommand \/ CopilotCommand

\* A caller of process_text, or one run of main of the copilot application.
SpecCopilot == InitCopilot /\ [][NextCopilot]_vars

----------------------------------------------------------------------------
(* Properties of analyze_threat_patterns *)

\* What a record carries, read off the record itself.
Has(r, f) == f \in DOMAIN r
IsBlock(r) == Has(r, "action") /\ r.action = "BLOCK"
IsAllow(r) == Has(r, "action") /\ r.action = "ALLOW"
CarriedRule(r) == IF Has(r, "terminatingRuleId") THEN r.terminatingRuleId ELSE Unknown
LacksHttp(r, f) == ~Has(r, "httpRequest") \/ ~Has(r.httpRequest, f)
CarriedHttp(r, f) == IF LacksHttp(r, f) THEN "Unknown" ELSE r.httpRequest[f]

\* The records the loop has consumed so far.
InRun == pc \in {"loop", "analyzed"}
Returned == pc \in {"analyzed", "reported"}
Seen == 1..(idx - 1)
SeenBlocks == {i \in Seen : IsBlock(logs[i])}

\* The loop is about to consume logs[idx].
AtRecord == pc = "loop" /\ idx <= Len(logs)

RECURSIVE SumCounts(_)
SumCounts(t) == IF t = <<>> THEN 0 ELSE t[Len(t)].n + SumCounts(SubSeq(t, 1, Len(t) - 1))

NoDuplicateKey(t) == \A i, j \in 1..Len(t) : t[i].k = t[j].k => i = j

\* The table t holds, for each key, the number of consumed BLOCK records
\* that carry the key, and no other key.
CountsBlocks(t, KeyOf(_)) ==
    /\ NoDuplicateKey(t)
    /\ \A i \in 1..Len(t) :
          /\ t[i].n >= 1
          /\ t[i].n = Cardinality({j \in SeenBlocks : KeyOf(logs[j]) = t[i].k})
    /\ \A j \in SeenBlocks : KeyOf(logs[j]) \in Keys(t)
    /\ SumCounts(t) = analysis.blocked_requests

FiveTables == <<analysis.blocked_by_rule, analysis.blocked_by_country,
                analysis.blocked_by_ip, analysis.top_blocked_uris,
                analysis.attack_methods>>

\* C1: in the result of analyze_threat_patterns total_requests is the
\* number of records, blocked_requests the number of records whose action
\* is exactly BLOCK, allowed_requests the number whose action is exactly
\* ALLOW; so blocked + allowed <= total, with equality exactly when every
\* record is a BLOCK or an ALLOW.
C1_CountersPartition ==
    Returned =>
        /\ analysis.total_requests = Len(logs)
        /\ analysis.blocked_requests =
               Cardinality({i \in 1..Len(logs) : IsBlock(logs[i])})
        /\ analysis.allowed_requests =
               Cardinality({i \in 1..Len(logs) : IsAllow(logs[i])})
        /\ analysis.blocked_requests + analysis.allowed_requests
               <= analysis.total_requests
        /\ (analysis.blocked_requests + analysis.allowed_requests
               = analysis.total_requests)
           <=> (\A i \in 1..Len(logs) : IsBlock(logs[i]) \/ IsAllow(logs[i]))

C1_Witness ==
    /\ pc = "analyzed"
    /\ analysis.blocked_requests > 0
    /\ analysis.allowed_requests > 0
    /\ analysis.blocked_requests + analysis.allowed_requests < analysis.total_requests

\* C2: at every point of the loop, and in the result, each of the rule,
\* country, client-IP, URI and attack-category tables holds for every key
\* the number of BLOCK records consumed so far that carry the key (or
\* default to "Unknown"), holds no other key, and sums to blocked_requests.
C2_TablesCountBlocks ==
    InRun =>
        /\ analysis.blocked_requests = Cardinality(SeenBlocks)
        /\ CountsBlocks(analysis.blocked_by_rule, CarriedRule)
        /\ CountsBlocks(analysis.blocked_by_country, LAMBDA r : CarriedHttp(r, "country"))
        /\ CountsBlocks(analysis.blocked_by_ip, LAMBDA r : CarriedHttp(r, "clientIP"))
        /\ CountsBlocks(analysis.top_blocked_uris, LAMBDA r : CarriedHttp(r, "uri"))
        /\ CountsBlocks(analysis.attack_methods, LAMBDA r : Classify(CarriedRule(r)))

C2_Witness ==
    /\ pc = "analyzed"
    /\ \E i \in 1..Len(analysis.blocked_by_rule) : analysis.blocked_by_rule[i].n >= 2
    /\ Len(analysis.blocked_by_rule) >= 2
    /\ Len(analysis.blocked_by_ip) >= 2

\* Two characters are the same letter, whatever their case: they have the
\* same upper-case form.
Capital(c) == IF c \in DOMAIN ToUpper THEN ToUpper[c] ELSE c
SameLetter(a, b) == Capital(a) = Capital(b)

\* kw occurs in rule_id as a substring, case-insensitively.
HasKeyword(rule_id, kw) ==
    \E i \in 0..(Len(rule_id) - Len(kw)) :
        \A j \in 1..Len(kw) : SameLetter(rule_id[i + j], kw[j])

\* The ordered keyword list: the first keyword the rule id contains decides.
KeywordOrder == <<KwSql, KwXss, KwRateLimit, KwGeo>>
CategoryOrder == <<"SQL Injection", "Cross-Site Scripting", "Rate Limiting",
                   "Geographic Block">>
FirstMatch(rule_id) ==
    IF \E n \in 1..Len(KeywordOrder) : HasKeyword(rule_id, KeywordOrder[n])
    THEN CategoryOrder[CHOOSE n \in 1..Len(KeywordOrder) :
             /\ HasKeyword(rule_id, KeywordOrder[n])
             /\ \A m \in 1..(n - 1) : ~HasKeyword(rule_id, KeywordOrder[m])]
    ELSE "Other"

\* C3: a consumed BLOCK record is counted in attack_methods under the
\* category of the first keyword of sql, xss, ratelimit, geo that its rule
\* id contains case-insensitively, Other if none, and under that category
\* only; the example of three BLOCK records (SQLi, SQLi, RateLimit rule ids)
\* and two ALLOW records gives {SQL Injection: 2, Rate Limiting: 1}, blocked
\* 3, allowed 2, total 5.
C3_Step ==
    (AtRecord /\ IsBlock(logs[idx])) =>
        LET cat == FirstMatch(CarriedRule(logs[idx]))
        IN  /\ Count(analysis'.attack_methods, cat)
                   = Count(analysis.attack_methods, cat) + 1
            /\ \A c \in (Keys(analysis.attack_methods)
                            \cup Keys(analysis'.attack_methods)) \ {cat} :
                   Count(analysis'.attack_methods, c) = Count(analysis.attack_methods, c)
            /\ Keys(analysis'.attack_methods) \subseteq
                   {CategoryOrder[n] : n \in 1..Len(CategoryOrder)} \cup {"Other"}

C3_Example ==
    (Returned /\ logs = ExampleLogs) =>
        /\ Keys(analysis.attack_methods) = {"SQL Injection", "Rate Limiting"}
        /\ Count(analysis.attack_methods, "SQL Injection") = 2
        /\ Count(analysis.attack_methods, "Rate Limiting") = 1
        /\ analysis.blocked_requests = 3
        /\ analysis.allowed_requests = 2
        /\ analysis.total_requests = 5

C3_FirstKeywordWins == []C3_Example /\ [][C3_Step]_vars

\* Two rule ids holding two keywords each have been counted, each under
\* the earlier keyword's category only.
C3_Witness ==
    /\ pc = "analyzed"
    /\ \E j \in SeenBlocks :
          /\ HasKeyword(CarriedRule(logs[j]), KwXss)
          /\ HasKeyword(CarriedRule(logs[j]), KwSql)
    /\ \E j \in SeenBlocks :
          /\ HasKeyword(CarriedRule(logs[j]), KwGeo)
          /\ HasKeyword(CarriedRule(logs[j]), KwRateLimit)
    /\ Count(analysis.attack_methods, "Rate Limiting") = 1
    /\ Count(analysis.attack_methods, "SQL Injection") = 1
    /\ Count(analysis.attack_methods, "Cross-Site Scripting") = 0
    /\ Count(analysis.attack_methods, "Geographic Block") = 0

\* C4: consuming a BLOCK record never fails on an absent field: the loop
\* moves on, and the record is counted under "Unknown" in the country,
\* client-IP and URI tables for each of these fields that is absent (all
\* three when httpRequest is absent) and under "Unknown" in the rule table
\* and Other in the category table when terminatingRuleId is absent.
C4_Step ==
    (AtRecord /\ IsBlock(logs[idx])) =>
        /\ pc' = "loop" /\ idx' = idx + 1
        /\ LacksHttp(logs[idx], "country") =>
              Count(analysis'.blocked_by_country, "Unknown")
                  = Count(analysis.blocked_by_country, "Unknown") + 1
        /\ LacksHttp(logs[idx], "clientIP") =>
              Count(analysis'.blocked_by_ip, "Unknown")
                  = Count(analysis.blocked_by_ip, "Unknown") + 1
        /\ LacksHttp(logs[idx], "uri") =>
              Count(analysis'.top_blocked_uris, "Unknown")
                  = Count(analysis.top_blocked_uris, "Unknown") + 1
        /\ ~Has(logs[idx], "terminatingRuleId") =>
              /\ Count(analysis'.blocked_by_rule, Unknown)
                     = Count(analysis.blocked_by_rule, Unknown) + 1
              /\ Count(analysis'.attack_methods, "Other")
                     = Count(analysis.attack_methods, "Other") + 1

C4_UnknownDefault == [][C4_Step]_vars

\* A BLOCK record without httpRequest and one without terminatingRuleId
\* have been consumed.
C4_Witness ==
    /\ pc = "analyzed"
    /\ \E j \in SeenBlocks : ~Has(logs[j], "httpRequest")
    /\ \E j \in SeenBlocks : ~Has(logs[j], "terminatingRuleId")
    /\ \E j \in SeenBlocks : Has(logs[j], "httpRequest") /\ LacksHttp(logs[j], "clientIP")
    /\ Count(analysis.blocked_by_country, "Unknown") >= 2
    /\ Count(analysis.blocked_by_rule, Unknown) = 1

\* C5: consuming a record whose action is not exactly BLOCK leaves
\* blocked_requests, total_requests and the five frequency tables as they
\* are; allowed_requests grows by one for an ALLOW record and is left alone
\* for any other or absent action; the hourly counts grow by one in all.
C5_Step ==
    (AtRecord /\ ~IsBlock(logs[idx])) =>
        /\ analysis'.blocked_requests = analysis.blocked_requests
        /\ analysis'.total_requests = analysis.total_requests
        /\ analysis.total_requests = Len(logs)
        /\ FiveTables' = FiveTables
        /\ analysis'.allowed_requests =
               analysis.allowed_requests + (IF IsAllow(logs[idx]) THEN 1 ELSE 0)
        /\ SumCounts(analysis'.hourly_distribution)
               = SumCounts(analysis.hourly_distribution) + 1

C5_NonBlockFrame == [][C5_Step]_vars

\* A lower-case "block" record and a record without action were consumed
\* and nothing was blocked or allowed.
C5_Witness ==
    /\ pc = "analyzed"
    /\ \E j \in Seen : Has(logs[j], "action") /\ logs[j].action = "block"
    /\ \E j \in Seen : ~Has(logs[j], "action")
    /\ analysis.total_requests = 2
    /\ analysis.blocked_requests = 0
    /\ analysis.allowed_requests = 0
    /\ SumCounts(analysis.hourly_distribution) = 2

\* The hour of day, in local time, of a record: the h with
\* d days + h hours <= timestamp/1000 + tz < d days + (h + 1) hours.
SecondsOf(r) == IF Has(r, "timestamp") THEN r.timestamp \div 1000 ELSE 0
IsHourOf(h, r) ==
    \E d \in -1..((SecondsOf(r) \div 86400) + 1) :
        /\ d * 86400 + h * 3600 <= SecondsOf(r) + tz
        /\ SecondsOf(r) + tz < d * 86400 + (h + 1) * 3600

\* C6: every consumed record, whatever its action, is counted in exactly
\* one hourly counter, that of the hour of day of timestamp/1000 (0 when
\* absent); every key is an hour in 0..23 and the hourly counts sum to the
\* number of records consumed, total_requests in the result.
C6_HourlyDistribution ==
    InRun =>
        /\ NoDuplicateKey(analysis.hourly_distribution)
        /\ Keys(analysis.hourly_distribution) \subseteq 0..23
        /\ \A h \in Keys(analysis.hourly_distribution) :
              Count(analysis.hourly_distribution, h)
                  = Cardinality({j \in Seen : IsHourOf(h, logs[j])})
        /\ \A j \in Seen :
              \E h \in Keys(analysis.hourly_distribution) : IsHourOf(h, logs[j])
        /\ SumCounts(analysis.hourly_distribution) = idx - 1
        /\ Returned => SumCounts(analysis.hourly_distribution) = analysis.total_requests

\* Records of three actions, one without timestamp, in a zone west of
\* Greenwich, fell into more than one hour.
C6_Witness ==
    /\ pc = "analyzed"
    /\ tz < 0
    /\ Len(analysis.hourly_distribution) >= 2
    /\ \E j \in Seen : ~Has(logs[j], "timestamp")
    /\ \E j \in Seen : ~IsBlock(logs[j]) /\ ~IsAllow(logs[j])
    /\ \E i \in 1..Len(analysis.hourly_distribution) :
          analysis.hourly_distribution[i].n >= 2

\* The counters and the key-to-count mapping of each table agree.
SameMapping(t, u) ==
    /\ Keys(t) = Keys(u)
    /\ \A key \in Keys(t) : Count(t, key) = Count(u, key)
SixTables(a) == <<a.blocked_by_rule, a.blocked_by_country, a.blocked_by_ip,
                  a.top_blocked_uris, a.attack_methods, a.hourly_distribution>>
SameCounts(a, b) ==
    /\ a.total_requests = b.total_requests
    /\ a.blocked_requests = b.blocked_requests
    /\ a.allowed_requests = b.allowed_requests
    /\ \A n \in 1..Len(SixTables(a)) : SameMapping(SixTables(a)[n], SixTables(b)[n])

\* C7: a run on a permutation of the records of the first run returns the
\* same total_requests, blocked_requests and allowed_requests and the same
\* key-to-count mapping in each of the six tables as the first run.
C7_OrderIndependent ==
    (pc = "analyzed" /\ first.set) => SameCounts(analysis, first.analysis)

\* The shuffled run has returned, with the keys inserted in another order.
C7_Witness ==
    /\ pc = "analyzed"
    /\ first.set
    /\ logs # first.logs
    /\ analysis # first.analysis
    /\ analysis.blocked_requests >= 2
    /\ analysis.allowed_requests >= 1

\* C8: a run starts from zeroed counters and empty tables, whatever ran
\* before on the analyzer; a run on the records of the first run in the
\* same order returns an analysis identical to the first, key insertion
\* order included; a run does not change its input records.
C8_Fresh ==
    (pc = "loop" /\ idx = 1) =>
        /\ analysis.total_requests = Len(logs)
        /\ analysis.blocked_requests = 0
        /\ analysis.allowed_requests = 0
        /\ \A n \in 1..Len(SixTables(analysis)) : SixTables(analysis)[n] = <<>>
C8_Same ==
    (pc = "analyzed" /\ first.set /\ logs = first.logs) => analysis = first.analysis
C8_InputKept == (pc = "loop") => logs' = logs

C8_Repeatable == [](C8_Fresh /\ C8_Same) /\ [][C8_InputKept]_vars

\* The run has been repeated on the same records in the same order.
C8_Witness ==
    /\ pc = "analyzed"
    /\ first.set
    /\ logs = first.logs
    /\ analysis.blocked_requests >= 1
    /\ Len(analysis.hourly_distribution) >= 2

----------------------------------------------------------------------------
(* Properties of generate_report *)

RateLinesIn(rep) == SelectSeq(rep, LAMBDA l : l.kind = "rate")
Abs(x) == IF x < 0 THEN -x ELSE x

\* The report holds one Block Rate line and its value is blocked / total *
\* 100 to the nearest hundredth of a percent.
RateReported(rep, blocked, total) ==
    /\ Len(RateLinesIn(rep)) = 1
    /\ 2 * Abs(RateLinesIn(rep)[1].hundredths * total - 10000 * blocked) <= total

SectionLines(rep, sec) ==
    SelectSeq(rep, LAMBDA l : l.kind = "blocks" /\ l.section = sec)
SectionNames == <<"rule", "country", "ip", "uri">>
SectionTables == <<analysis.blocked_by_rule, analysis.blocked_by_country,
                   analysis.blocked_by_ip, analysis.top_blocked_uris>>
Position(t, key) == CHOOSE i \in 1..Len(t) : t[i].k = key

\* L lists the TopN highest-count entries of the table t in non-increasing
\* count order, equal counts in insertion order.
ListsTop(L, t) ==
    /\ Len(L) <= TopN
    /\ Len(L) = (IF Len(t) < TopN THEN Len(t) ELSE TopN)
    /\ \A i \in 1..Len(L) : \E p \in 1..Len(t) : t[p].k = L[i].key /\ t[p].n = L[i].count
    /\ \A i, j \in 1..Len(L) :
          i < j => /\ L[i].key # L[j].key
                   /\ L[i].count >= L[j].count
                   /\ L[i].count = L[j].count
                          => Position(t, L[i].key) < Position(t, L[j].key)
    /\ \A p \in 1..Len(t) :
          (\A i \in 1..Len(L) : L[i].key # t[p].k) =>
              \A i \in 1..Len(L) :
                  \/ L[i].count > t[p].n
                  \/ L[i].count = t[p].n /\ Position(t, L[i].key) < p

\* C10: each of the rule, country, IP and URI sections of the report lists
\* at most 10 entries, the 10 highest counts of its table in non-increasing
\* order, entries of equal count in the order their keys were inserted, so
\* that a tied key inserted later never displaces one inserted earlier.
C10_TopTen ==
    pc = "reported" =>
        \A n \in 1..Len(SectionNames) :
            ListsTop(SectionLines(report, SectionNames[n]), SectionTables[n])

\* A table of more than 10 keys was reported, and an entry left out has
\* the count of an entry listed, of which there are several.
C10_Witness ==
    /\ pc = "reported"
    /\ Len(analysis.blocked_by_ip) > TopN
    /\ LET L == SectionLines(report, "ip")
           t == analysis.blocked_by_ip
       IN  /\ Len(L) = TopN
           /\ L[1].count > L[TopN].count
           /\ L[TopN - 1].count = L[TopN].count
           /\ \E p \in 1..Len(t) :
                 /\ \A i \in 1..Len(L) : L[i].key # t[p].k
                 /\ t[p].n = L[TopN].count

\* The "category: count (pct%)" lines of a report.
MethodLinesIn(rep) == SelectSeq(rep, LAMBDA l : l.kind = "method")

\* tenths is count / blocked * 100 to the nearest tenth of a percent.
PctOf(tenths, count, blocked) == 2 * Abs(tenths * blocked - 1000 * count) <= blocked

\* C11: the attack-category section of the report lists every category of
\* attack_methods, however many there are, in non-increasing count order,
\* each with its count and its share of blocked_requests in percent; the
\* share is 0 whenever blocked_requests is 0, whatever the table holds.
C11_MethodsSection ==
    pc = "reported" =>
        LET L == MethodLinesIn(report)
            t == analysis.attack_methods
        IN  /\ Len(L) = Len(t)
            /\ \A p \in 1..Len(t) :
                  \E i \in 1..Len(L) : L[i].key = t[p].k /\ L[i].count = t[p].n
            /\ \A i, j \in 1..Len(L) : i < j => L[i].count >= L[j].count
            /\ \A i \in 1..Len(L) :
                  IF analysis.blocked_requests > 0
                  THEN PctOf(L[i].tenths, L[i].count, analysis.blocked_requests)
                  ELSE L[i].tenths = 0

\* A table of more than ten categories was reported next to a
\* blocked_requests of 0.
C11_Witness ==
    /\ pc = "reported"
    /\ analysis.blocked_requests = 0
    /\ Len(analysis.attack_methods) > TopN
    /\ Len(MethodLinesIn(report)) > TopN
    /\ \A i \in 1..Len(MethodLinesIn(report)) : MethodLinesIn(report)[i].tenths = 0

----------------------------------------------------------------------------
(* Properties of the renderers *)

\* The key sets of the six tables of an analysis.
TableKeys(a) ==
    <<Keys(a.blocked_by_rule), Keys(a.blocked_by_country), Keys(a.blocked_by_ip),
      Keys(a.attack_methods), Keys(a.hourly_distribution), Keys(a.top_blocked_uris)>>

RenderStep ==
    \/ pc = "analyzed" /\ pc' = "reported"
    \/ pc = "reported" /\ pc' = "charted"

\* C12: a call of generate_report or of create_visualizations leaves the
\* analysis as it was: every counter, every table, and the key set of every
\* table, that of hourly_distribution included.
C12_Step ==
    RenderStep => /\ analysis' = analysis
                  /\ TableKeys(analysis') = TableKeys(analysis)
C12_AnalysisReadOnly == [][C12_Step]_vars

\* The charts were drawn, after the report, from an analysis whose
\* hourly_distribution lacks most hours, and it still lacks them.
C12_Witness ==
    /\ pc = "charted"
    /\ report # <<>>
    /\ charts.dir = ChartDir
    /\ Len(charts.files) = 5
    /\ Keys(analysis.hourly_distribution) = {0}
    /\ analysis = analyze_threat_patterns(logs, tz)

\* C13: generate_report delivers the text it returns to exactly one place.
\* With an output path the file holds exactly that text, replacing what it
\* held, and the text is not printed; without one the text is printed and
\* no file is written.
C13_Step ==
    (pc = "analyzed" /\ pc' = "reported") =>
        LET printed == \E i \in (Len(stdout) + 1)..Len(stdout') : stdout'[i] = report'
        IN  IF Truthy(output_file')
            THEN /\ fs' = [path |-> output_file', content |-> report']
                 /\ ~printed
            ELSE /\ printed
                 /\ fs' = fs
C13_OneDestination == [][C13_Step]_vars

\* The report went to the file, which held an earlier report before, and
\* only the notice was printed.
C13_Witness ==
    /\ pc = "reported"
    /\ output_file = "report.txt"
    /\ fs = [path |-> "report.txt", content |-> report]
    /\ report # StaleFile.content
    /\ Len(stdout) = 1
    /\ stdout[1] # report

----------------------------------------------------------------------------
(* Properties of get_log_files *)

\* The proleptic Gregorian calendar, by day number.
MonthStarts == <<0, 31, 59, 90, 120, 151, 181, 212, 243, 273, 304, 334, 365>>
DaysBefore(y, m) == MonthStarts[m] + (IF m > 2 /\ IsLeap(y) THEN 1 ELSE 0)
IsCalendarDay(dt) ==
    /\ dt.month \in 1..12
    /\ dt.day >= 1
    /\ dt.day <= DaysBefore(dt.year, dt.month + 1) - DaysBefore(dt.year, dt.month)
Ordinal(dt) ==
    365 * (dt.year - 1) + ((dt.year - 1) \div 4) - ((dt.year - 1) \div 100)
    + ((dt.year - 1) \div 400) + DaysBefore(dt.year, dt.month) + dt.day

\* The days from start_date to end_date, both included.
DaysInRange ==
    IF Ordinal(end_date) >= Ordinal(start_date)
    THEN Ordinal(end_date) - Ordinal(start_date) + 1
    ELSE 0


\* p reads year=YYYY/month=MM/day=DD/ for the day dt.
PrefixOfDay(p, dt) ==
    /\ Len(p) = 26
    /\ SubSeq(p, 1, 5) = <<"y", "e", "a", "r", "=">>
    /\ SubSeq(p, 10, 16) = <<"/", "m", "o", "n", "t", "h", "=">>
    /\ SubSeq(p, 19, 23) = <<"/", "d", "a", "y", "=">>
    /\ p[26] = "/"
    /\ IsDigits(SubSeq(p, 6, 9)) /\ NumOf(SubSeq(p, 6, 9)) = dt.year
    /\ IsDigits(SubSeq(p, 17, 18)) /\ NumOf(SubSeq(p, 17, 18)) = dt.month
    /\ IsDigits(SubSeq(p, 24, 25)) /\ NumOf(SubSeq(p, 24, 25)) = dt.day

\* The keys a listing call received, and those of them that end in .gz.
KeysListed(call) ==
    IF call.outcome.raised \/ "Contents" \notin DOMAIN call.outcome.response
    THEN <<>>
    ELSE [i \in 1..Len(call.outcome.response.Contents) |->
              call.outcome.response.Contents[i].Key]
IsGz(k) == Len(k) >= 3 /\ k[Len(k) - 2] = "." /\ k[Len(k) - 1] = "g" /\ k[Len(k)] = "z"
GzListed(call) == SelectSeq(KeysListed(call), IsGz)
Elements(s) == {s[i] : i \in 1..Len(s)}
AllGzListed == UNION {Elements(GzListed(list_calls[i])) : i \in 1..Len(list_calls)}
AllListed == UNION {Elements(KeysListed(list_calls[i])) : i \in 1..Len(list_calls)}

\* C14: get_log_files lists each calendar day from start_date to end_date,
\* both included, once and in increasing order, under the prefix
\* year=YYYY/month=MM/day=DD/ with month and day padded to two digits, and
\* returns exactly the listed keys that end in .gz; with start_date after
\* end_date it lists nothing and returns nothing.
C14_DaysListed ==
    pc = "located" =>
        /\ Len(list_calls) = DaysInRange
        /\ \A i \in 1..Len(list_calls) :
              /\ IsCalendarDay(list_calls[i].date)
              /\ Ordinal(list_calls[i].date) = Ordinal(start_date) + i - 1
              /\ PrefixOfDay(list_calls[i].prefix, list_calls[i].date)
        /\ Elements(log_files) = AllGzListed
        /\ Ordinal(start_date) > Ordinal(end_date) => list_calls = <<>> /\ log_files = <<>>

\* A range across the turn of the year was listed, day 01 of month 01
\* included, and a listed key that is no compressed log was left out.
C14_Witness ==
    /\ pc = "located"
    /\ start_date.year < end_date.year
    /\ Len(list_calls) = DaysInRange
    /\ log_files # <<>>
    /\ \E k \in AllListed : k \notin Elements(log_files)

\* How often the key k occurs in the sequence s.
Occurrences(s, k) == Cardinality({i \in 1..Len(s) : s[i] = k})
RECURSIVE TimesListed(_, _)
TimesListed(n, k) ==
    IF n = 0 THEN 0
    ELSE TimesListed(n - 1, k) + Occurrences(GzListed(list_calls[n]), k)
Ascending(s) == \A i, j \in 1..Len(s) : i < j => ~StrLT(s[j], s[i])

\* C15, as amended: the key sequence returned by get_log_files is sorted in
\* ascending order and holds each key as often as the listings returned it:
\* a key that two listings return, or one listing returns twice, is in it
\* twice.
C15_SortedAllKept ==
    pc = "located" =>
        /\ Ascending(log_files)
        /\ \A k \in AllGzListed \cup Elements(log_files) :
              Occurrences(log_files, k) = TimesListed(Len(list_calls), k)

\* One key was returned by two listings and another twice by one listing,
\* a later listing returning a smaller key than an earlier one; the result
\* holds both keys twice.
C15_Witness ==
    /\ pc = "located"
    /\ Occurrences(log_files, SharedKey) = 2
    /\ \E i \in 1..Len(list_calls) :
          \E k \in Elements(GzListed(list_calls[i])) :
              /\ Occurrences(GzListed(list_calls[i]), k) = 2
              /\ Occurrences(log_files, k) = 2
    /\ \E i, j \in 1..Len(list_calls) :
          /\ i < j
          /\ \E a \in Elements(GzListed(list_calls[i])), b \in Elements(GzListed(list_calls[j])) :
                StrLT(b, a)

\* C15 as claimed: the returned sequence is sorted and no key occurs twice
\* in it.
C15_Original ==
    pc = "located" =>
        /\ Ascending(log_files)
        /\ \A i, j \in 1..Len(log_files) : i < j => log_files[i] # log_files[j]

\* A listing was made and it raised.
ListingRaised ==
    /\ pc = "locate"
    /\ Len(list_calls') = Len(list_calls) + 1
    /\ list_calls'[Len(list_calls')].outcome.raised

\* C16: a listing that fails is logged and nothing else: the keys collected
\* so far stay, the loop goes on to the next day, every day of the range is
\* listed, the keys of the days before and after are returned,
\* get_log_files does not raise and it returns.
C16_Step ==
    ListingRaised =>
        /\ log_files' = log_files
        /\ Len(stdout') = Len(stdout) + 1
        /\ stdout'[Len(stdout')] = <<Text("Error listing objects for"),
                                     Text(list_calls'[Len(list_calls')].prefix)>>
        /\ Ordinal(current_date') = Ordinal(current_date) + 1
        /\ pc' = "locate"
C16_Result ==
    /\ pc # "raised"
    /\ pc = "located" =>
          /\ Len(list_calls) = DaysInRange
          /\ AllGzListed \subseteq Elements(log_files)
C16_ListingFailureNonFatal ==
    /\ [][C16_Step]_vars
    /\ []C16_Result
    /\ (pc = "locate") ~> (pc = "located")

\* The listing of a day between two days that returned keys failed, and
\* the keys of both days were returned.
C16_Witness ==
    /\ pc = "located"
    /\ \E i, j, k \in 1..Len(list_calls) :
          /\ i < j /\ j < k
          /\ list_calls[j].outcome.raised
          /\ GzListed(list_calls[i]) # <<>>
          /\ GzListed(list_calls[k]) # <<>>
          /\ Elements(GzListed(list_calls[i])) \subseteq Elements(log_files)
          /\ Elements(GzListed(list_calls[k])) \subseteq Elements(log_files)

----------------------------------------------------------------------------
(* Properties of download_and_parse_logs *)

InFetch == pc \in {"fetch", "fetched"}
FailedCall(c) == c.outcome.stage # "ok"

\* C17, as claimed: with a file cap N, no more than N objects are retrieved
\* in a run, whatever retrievals fail, for every N >= 0.
C17_CapBoundsRetrievals ==
    (InFetch /\ max_files # NoCap) => Len(get_calls) <= max_files[1]

\* A retrieval was made and it failed before the text was there.
RetrievalFailed ==
    /\ pc = "fetch"
    /\ Len(get_calls') = Len(get_calls) + 1
    /\ FailedCall(get_calls'[Len(get_calls')])

\* The values of the lines of an object that are JSON, in line order.
JsonValues(lines) ==
    LET json == SelectSeq(lines, LAMBDA l : l.kind = "json")
    IN  [i \in 1..Len(json) |-> json[i].value]

\* The JSON values of the objects retrieved by the first n calls, in order.
RECURSIVE ValuesUpTo(_)
ValuesUpTo(n) ==
    IF n = 0 THEN <<>>
    ELSE ValuesUpTo(n - 1)
         \o (IF FailedCall(get_calls[n]) THEN <<>> ELSE JsonValues(get_calls[n].outcome.lines))

\* C18: a file whose retrieval, decompression or decoding fails is logged
\* and skipped whole: logs keeps the records of the files before and gets
\* none from this one, the file is not counted, the loop goes on to the next
\* key, and download_and_parse_logs does not raise.
C18_Step ==
    RetrievalFailed =>
        /\ logs' = logs
        /\ processed_files' = processed_files
        /\ stdout'[Len(stdout')] = <<Text("Error processing"), Text(log_files[fidx])>>
        /\ fidx' = fidx + 1
        /\ pc' = "fetch"
C18_Result ==
    /\ pc # "raised"
    /\ pc = "fetched" =>
          \A i \in 1..Len(get_calls) :
              (FailedCall(get_calls[i]) /\ i < Len(log_files)) => i < Len(get_calls)
C18_FileFailureSkipsFile == [][C18_Step]_vars /\ []C18_Result

\* A file failed between two files that gave records; the records of both
\* were returned.
C18_Witness ==
    /\ pc = "fetched"
    /\ \E i, j, k \in 1..Len(get_calls) :
          /\ i < j /\ j < k
          /\ FailedCall(get_calls[j])
          /\ JsonValues(get_calls[i].outcome.lines) # <<>>
          /\ JsonValues(get_calls[k].outcome.lines) # <<>>
    /\ logs = ValuesUpTo(Len(get_calls))
    /\ logs # <<>>

\* C19: within a retrieved file the lines that fail to parse are dropped
\* without a message and without effect on the other lines: logs is exactly
\* the values of the non-empty lines that parse, in key order and, within a
\* file, in line order -- what the files give with those lines removed.
C19_Step ==
    (pc = "fetch" /\ Len(get_calls') = Len(get_calls) + 1
        /\ ~FailedCall(get_calls'[Len(get_calls')])) =>
            /\ stdout' = Append(stdout, <<Text("Processing"), Text(log_files[fidx])>>)
            /\ processed_files' = processed_files + 1
            /\ pc' = "fetch"
C19_Result ==
    InFetch =>
        /\ logs = ValuesUpTo(Len(get_calls))
        /\ \A i \in 1..Len(get_calls) :
              LET lines == get_calls[i].outcome.lines
              IN  Parsed(<<>>, StripSplit(lines))
                      = Parsed(<<>>, StripSplit(SelectSeq(lines, LAMBDA l : l.kind = "json")))
C19_BadLinesDropped == [][C19_Step]_vars /\ []C19_Result

\* A file with lines that do not parse, empty and blank lines between two
\* lines that do was read, and a second file after it.
C19_Witness ==
    /\ pc = "fetched"
    /\ Len(get_calls) >= 2
    /\ get_calls[1].outcome = Retrieved(FileMixed)
    /\ get_calls[2].outcome = Retrieved(FileClean)
    /\ logs = <<ExampleLogs[1], ExampleLogs[2], ExampleLogs[3]>>

\* C20: nothing is requested twice in a run: the listings are of
\* successive days, one each, and the retrievals are of the keys of the key
\* sequence in order, one for each position; each step makes at most one
\* request, and a prefix or key whose request failed is not requested again.
C20_Step ==
    /\ Len(list_calls') + Len(get_calls') <= Len(list_calls) + Len(get_calls) + 1
    /\ Len(list_calls') >= Len(list_calls) => SubSeq(list_calls', 1, Len(list_calls)) = list_calls
    /\ Len(get_calls') >= Len(get_calls) => SubSeq(get_calls', 1, Len(get_calls)) = get_calls
C20_Requests ==
    /\ \A i, j \in 1..Len(list_calls) :
          i < j => /\ Ordinal(list_calls[j].date) = Ordinal(list_calls[i].date) + j - i
                   /\ list_calls[i].prefix # list_calls[j].prefix
    /\ InFetch =>
          /\ Len(get_calls) <= Len(log_files)
          /\ \A i \in 1..Len(get_calls) : get_calls[i].at = i /\ get_calls[i].key = log_files[i]
          /\ (\A i, j \in 1..Len(log_files) : i < j => log_files[i] # log_files[j])
                => \A i, j \in 1..Len(get_calls) : i < j => get_calls[i].key # get_calls[j].key
----------------------------------------------------------------------------
(* Properties of main of the analyzer *)

\* The strings that read as a calendar day in the form YYYY-MM-DD, month
\* and day with or without the leading zero, of the years the command lines
\* name.
Years == 2023..2024
ValidDateStrings ==
    UNION { { Str(t[1]) \o <<"-">> \o mm \o <<"-">> \o dd :
                mm \in {Str(t[2]), Pad2(t[2])}, dd \in {Str(t[3]), Pad2(t[3])} } :
            t \in {u \in Years \X (1..12) \X (1..31) : u[3] <= DaysInMonth(u[1], u[2])} }
IsDateString(s) == s \in ValidDateStrings

\* The command line was accepted and both of its dates read as days.
Accepted == ~args.usage_error
DatesParse == IsDateString(args.start_date) /\ IsDateString(args.end_date)

\* The three ends main gives itself before the aggregator runs.
DateRefused == Accepted /\ ~DatesParse
NoKeys == pc = "located" /\ log_files = <<>>
NoRecords == pc = "fetched" /\ logs = <<>>

\* C21, as claimed: main exits with code 1 in exactly three cases (a date
\* that does not parse, no key from the locator, no record from the
\* fetcher/parser) and otherwise completes with exit code 0; a run that
\* exits with code 1 has generated no report and no charts.
C21_ExitCodes ==
    (main_pc = "exited" /\ Accepted) =>
        /\ exit_code \in {0, 1}
        /\ exit_code = 1 <=> (DateRefused \/ NoKeys \/ NoRecords)
        /\ exit_code = 1 => report = <<>> /\ charts = NoCharts /\ fs = NoFile

\* The order of the stages of main, and of the positions within them.
MainRank == [start |-> 0, locating |-> 1, fetching |-> 2, analyzing |-> 3,
             reporting |-> 4, charting |-> 5, exited |-> 6]
PcRank == [none |-> 0, locate |-> 1, located |-> 2, fetch |-> 3, fetched |-> 4,
           idle |-> 5, loop |-> 6, analyzed |-> 7, reported |-> 8, charted |-> 9,
           raised |-> 10]
FetchOver == fidx > Len(log_files) \/ Capped(max_files, processed_files)

\* C22: the stages of a run come in the order locator, fetcher/parser,
\* aggregator, report renderer, chart renderer, each at most once and each
\* after the one before has returned: a listing is requested only while
\* nothing has been retrieved, an object only after the listings of all
\* days of the range, no request of either kind when a date does not parse,
\* the aggregator works on the complete record sequence, which no later
\* stage changes, the report is rendered after the aggregation and the
\* charts, when they are drawn, after the report.
C22_Step ==
    /\ MainRank[main_pc'] >= MainRank[main_pc]
    /\ PcRank[pc'] >= PcRank[pc]
    /\ list_calls' # list_calls =>
          main_pc = "locating" /\ get_calls = <<>> /\ logs = <<>>
    /\ get_calls' # get_calls =>
          /\ main_pc = "fetching"
          /\ Len(list_calls) = DaysInRange
          /\ analysis = ZeroAnalysis
    /\ logs' # logs => main_pc = "fetching"
    /\ (analysis' # analysis /\ main_pc # "charting") =>
          main_pc = "analyzing" /\ FetchOver /\ report = <<>>
    /\ report' # report =>
          main_pc = "reporting" /\ pc = "analyzed" /\ idx > Len(logs) /\ charts = NoCharts
    /\ charts' # charts =>
          /\ main_pc = "charting" /\ pc = "reported" /\ report # <<>>
          /\ ~args.no_charts /\ VISUALIZATION_AVAILABLE
C22_Result ==
    /\ DateRefused => list_calls = <<>> /\ get_calls = <<>> /\ pc = "none"
    /\ get_calls # <<>> => Len(list_calls) = DaysInRange
    /\ PcRank[pc] >= PcRank["loop"] =>
          /\ FetchOver
          /\ logs = ValuesUpTo(Len(get_calls))
          /\ analysis.total_requests = Len(logs)
    /\ charts # NoCharts => report # <<>>
C22_StagesInOrder == [][C22_Step]_vars /\ []C22_Result

\* A run went through all five stages: two days were listed, two objects
\* retrieved, the report written and the charts drawn, and main returned.
C22_Witness ==
    /\ main_pc = "exited"
    /\ exit_code = 0
    /\ Len(list_calls) = 2
    /\ Len(get_calls) >= 2
    /\ report # <<>>
    /\ charts # NoCharts

\* A retrieved object held a line that did not parse.
LineDropped ==
    /\ pc = "fetch"
    /\ Len(get_calls') = Len(get_calls) + 1
    /\ \E i \in 1..Len(get_calls'[Len(get_calls')].outcome.lines) :
          get_calls'[Len(get_calls')].outcome.lines[i].kind \in {"invalid", "blank"}
IllFormed(ls) == \E i \in 1..Len(ls) : Raises(ls[i])
BlockCount(ls) == Cardinality({i \in 1..Len(ls) : Get(ls[i], "action", "") = "BLOCK"})

\* C23: a listing that fails, a retrieval that fails and a line that does
\* not parse never end the run: the loop they happen in goes on.  A run
\* whose dates parse lists every day of the range and ends in one of three
\* ways.  When the units that succeeded gave no key or no record, it exits
\* with code 1 and no report.  When they gave records, all of them and no
\* others reach the aggregator; the run then exits with code 0 after a
\* report on exactly these records, unless one of them is a JSON value on
\* which the aggregator raises, which ends the run with code 1 and no
\* report.
C23_Step ==
    (ListingRaised \/ RetrievalFailed \/ LineDropped) =>
        /\ pc' = pc
        /\ main_pc' = main_pc
        /\ exit_code' = NoExit
C23_Result ==
    (main_pc = "exited" /\ Accepted /\ DatesParse) =>
        LET gathered == ValuesUpTo(Len(get_calls))
        IN  /\ Len(list_calls) = DaysInRange
            /\ logs = gathered
            /\ IF gathered = <<>>
               THEN exit_code = 1 /\ report = <<>> /\ pc \in {"located", "fetched"}
               ELSE IF IllFormed(gathered)
               THEN exit_code = 1 /\ report = <<>> /\ pc = "raised"
               ELSE /\ exit_code = 0
                    /\ analysis.total_requests = Len(gathered)
                    /\ analysis.blocked_requests = BlockCount(gathered)
                    /\ report = ReportLines(analysis)
C23_SkipsNeverFatal == [][C23_Step]_vars /\ []C23_Result

\* A run in which a listing failed, a retrieval failed and lines did not
\* parse ended with code 0 and a report on the records of the other file.
C23_Witness ==
    /\ main_pc = "exited"
    /\ exit_code = 0
    /\ report # <<>>
    /\ \E i \in 1..Len(list_calls) : list_calls[i].outcome.raised
    /\ \E i \in 1..Len(get_calls) : FailedCall(get_calls[i])
    /\ \E i \in 1..Len(get_calls) : get_calls[i].outcome = Retrieved(FileMixed)
    /\ analysis.total_requests = 2

\* C23, as claimed: whatever listings and retrievals fail and whatever
\* lines do not parse, a run whose records are all log records ends by
\* reporting on what it gathered.
C23_Original ==
    (main_pc = "exited" /\ Accepted /\ DatesParse /\ ~IllFormed(logs)) =>
        exit_code = 0 /\ report # <<>>

\* C25, as claimed: every element of the sequence returned by
\* download_and_parse_logs is a JSON object and analyze_threat_patterns
\* never raises on it, whatever JSON values the lines hold.
C25_RecordsAreObjects ==
    /\ \A i \in 1..Len(logs) : IsObject(logs[i])
    /\ pc # "raised"
    /\ main_pc = "exited" => ~IllFormed(logs)

----------------------------------------------------------------------------
(* Properties of the file counter *)

\* The calls among the first n that gave the text of their object.
OkCalls(n) == {i \in 1..n : ~FailedCall(get_calls[i])}

\* C26: processed_files counts the files retrieved, decompressed and
\* decoded without error, and only them: it is the number of such files
\* among the keys visited, which are the first keys of log_files in order,
\* so 0 <= processed_files <= keys visited; a failed file leaves the
\* counter, and with it the room under the cap, as it was.  With a cap
\* N >= 1 the records returned are those of at most N files, the first N
\* of the sequence that succeed: the loop is left right after the N-th
\* success, or at the end of the sequence with fewer than N.
C26_Step ==
    RetrievalFailed =>
        /\ processed_files' = processed_files
        /\ Capped(max_files, processed_files') = Capped(max_files, processed_files)
C26_Result ==
    InFetch =>
        /\ Len(get_calls) = fidx - 1
        /\ \A i \in 1..Len(get_calls) : get_calls[i].key = log_files[i]
        /\ processed_files = Cardinality(OkCalls(Len(get_calls)))
        /\ 0 <= processed_files /\ processed_files <= Len(get_calls)
        /\ logs = ValuesUpTo(Len(get_calls))
        /\ (max_files # NoCap /\ max_files[1] >= 1) =>
              /\ processed_files <= max_files[1]
              /\ processed_files = max_files[1] => Len(get_calls) \in OkCalls(Len(get_calls))
              /\ pc = "fetched" =>
                    processed_files = max_files[1] \/ Len(get_calls) = Len(log_files)
C26_CounterCountsSuccesses == [][C26_Step]_vars /\ []C26_Result

\* With a cap of two, the first file failed and the next two were read:
\* three keys were visited and the counter stands at two.
C26_Witness ==
    /\ pc = "fetched"
    /\ max_files = Cap(2)
    /\ Len(get_calls) = 3
    /\ FailedCall(get_calls[1])
    /\ processed_files = 2
    /\ logs # <<>>

----------------------------------------------------------------------------
(* Properties of the validator script *)

TrueCount(results) == Cardinality({i \in 1..Len(results) : results[i] = "True"})
FalseCount(results) == Cardinality({i \in 1..Len(results) : results[i] = "False"})
Absent(f) == f.state \in {"missing", "unreadable"}

\* C24: main of the validator calls the five checks in the order of its
\* list, each once, and goes on to the next check after one that failed;
\* passed is the number of checks that returned True, between 0 and 5;
\* main returns 0 exactly when all five returned True and 1 otherwise; a
\* check whose file is missing or cannot be read returns False, and no
\* exception leaves a check.
C24_Step ==
    (validator.pc = "running" /\ validator.test <= Total) =>
        /\ Len(validator'.results) = Len(validator.results) + 1
        /\ validator'.test = validator.test + 1
        /\ validator'.pc = "running"
        /\ validator'.seen[validator.test] \in TestFiles(validator.test)
C24_Result ==
    /\ validator.pc # "raised"
    /\ Len(validator.results) = validator.test - 1
    /\ Len(validator.seen) = Len(validator.results)
    /\ validator.passed = TrueCount(validator.results)
    /\ 0 <= validator.passed /\ validator.passed <= Total
    /\ Cardinality({i \in 1..Len(validator.stdout) : validator.stdout[i] = "Test failed!"})
          = FalseCount(validator.results)
    /\ \A i \in 1..Len(validator.seen) :
          Absent(validator.seen[i][1]) => validator.results[i] = "False"
    /\ validator.pc = "returned" =>
          /\ Len(validator.results) = Total
          /\ validator.returned \in {0, 1}
          /\ validator.returned = 0 <=>
                \A i \in 1..Total : validator.results[i] = "True"
          /\ validator.returned = 0 <=> validator.passed = Total
C24_AllChecksRun == [][C24_Step]_vars /\ []C24_Result

\* The template was missing and a website file could not be read; the
\* three other checks were run all the same and passed, and main returned 1
\* with passed = 3.
C24_Witness ==
    /\ validator.pc = "returned"
    /\ validator.returned = 1
    /\ validator.results = <<"False", "True", "False", "True", "True">>
    /\ validator.seen[1][1] = MissingFile
    /\ validator.seen[3][1] = UnreadableFile
    /\ validator.passed = 3

----------------------------------------------------------------------------
(* Properties of the copilot application *)

NoLower(s) == \A i \in 1..Len(s) : s[i] \notin DOMAIN ToUpper
NoUpper(s) == \A i \in 1..Len(s) : s[i] \notin DOMAIN ToLower
NeitherFileOption(a) == a.command = "file" /\ a.read \in {None, ""} /\ a.write = <<>>

\* C27: process_text returns a result for the operations upper, lower,
\* title, reverse and word_count and for no other operation name, for
\* which it raises ValueError and returns nothing; reverse applied twice
\* gives the text back; upper and lower applied twice give what they give
\* applied once, a text without lower-case and without upper-case letters.
\* main returns 0 after a command whose operation raised nothing, and 1
\* when no command is given, when the file command has neither --read nor
\* --write, and when the operation raises, as read_file does on a file
\* that does not exist.
C27_Calls ==
    /\ copilot.pc = "called" =>
          /\ copilot.operation \in {"upper", "lower", "title", "reverse", "word_count"}
          /\ copilot.raised = "none"
          /\ Len(copilot.results[1]) = Len(copilot.text) \/ copilot.operation = "word_count"
          /\ copilot.operation = "upper" => NoLower(copilot.results[1])
          /\ copilot.operation = "lower" => NoUpper(copilot.results[1])
    /\ (copilot.pc = "raised" /\ copilot.argv = NoArgv) =>
          /\ copilot.operation \notin {"upper", "lower", "title", "reverse", "word_count"}
          /\ copilot.raised = "ValueError"
          /\ copilot.results = <<>>
    /\ Len(copilot.results) = 2 =>
          /\ copilot.operation = "reverse" => copilot.results[2] = copilot.text
          /\ copilot.operation \in {"upper", "lower"} =>
                copilot.results[2] = copilot.results[1]
C27_Main ==
    copilot.pc = "returned" =>
        /\ copilot.returned \in {0, 1}
        /\ copilot.returned = 1 <=>
              \/ copilot.argv.command = "none"
              \/ NeitherFileOption(copilot.argv)
              \/ copilot.raised # "none"
        /\ copilot.returned = 0 <=>
              (copilot.argv.command \in {"text", "file", "info"}
               /\ copilot.raised = "none" /\ Len(copilot.results) = 1)
C27_Step ==
    /\ (copilot.pc = "call" /\ copilot.operation \in Operations) => copilot'.pc = "called"
    /\ (copilot.pc = "call" /\ copilot.operation \notin Operations) => copilot'.pc = "raised"
C27_CopilotContract == [][C27_Step]_vars /\ [](C27_Calls /\ C27_Main)

\* reverse was applied twice to a text that is no palindrome and gave the
\* text back.
C27_Witness ==
    /\ Len(copilot.results) = 2
    /\ copilot.operation = "reverse"
    /\ copilot.results[1] # copilot.text
    /\ copilot.results[2] = copilot.text

====
